---- MODULE Spec2Model ----
(***************************************************************************)
(* Model of the whisper-srt subtitle service: the FastAPI handlers of      *)
(* whispersubtitle/api/app.py, the Celery task generate_subtitle_task of   *)
(* whispersubtitle/api/worker.py with the collaborators it calls           *)
(* (download_media, extract_audio, generate_subtitles, OBSStorage), the    *)
(* Celery result backend the handlers read, and the three directories the  *)
(* code reads and writes (uploads, results, videos).                       *)
(***************************************************************************)
EXTENDS Integers, Sequences, FiniteSets, TLC

(***************************************************************************)
(* Bounds of the model.                                                    *)
(***************************************************************************)
\* number of submissions that are accepted in one behaviour
MaxTasks == 2
\* number of worker processes taking jobs from the queue
MaxWorkers == 1
\* number of failures of the environment in one behaviour (a call of the
\* result backend, the network, ffmpeg, the model, the object store or the
\* file system that raises)
MaxFaults == 1

TaskIds == 1..MaxTasks

\* Python's None
NoneV == "None"

(***************************************************************************)
(* Configuration (whispersubtitle/config/settings.py).                     *)
(***************************************************************************)
UPLOAD_FOLDER == "uploads"
RESULT_FOLDER == "results"
VIDEOS_FOLDER == "videos"

AUDIO_EXTENSIONS == <<"mp3", "wav", "ogg", "flac", "m4a">>
VIDEO_EXTENSIONS == <<"mp4", "avi", "mov", "mkv", "webm", "flv", "wmv">>
ALLOWED_EXTENSIONS == AUDIO_EXTENSIONS \o VIDEO_EXTENSIONS

OBS_SUBTITLES_BUCKET == "srts"

Range(s) == {s[i] : i \in DOMAIN s}

(***************************************************************************)
(* worker.py: the display labels of the task states.  The source's labels  *)
(* are Chinese strings; each is written here by its English meaning.       *)
(***************************************************************************)
TASK_STATUS ==
    [PENDING      |-> "waiting",
     STARTED      |-> "processing",
     DOWNLOADING  |-> "downloading",
     EXTRACTING   |-> "extracting audio",
     TRANSCRIBING |-> "generating subtitles",
     SUCCESS      |-> "completed",
     FAILURE      |-> "failed",
     RETRY        |-> "retrying",
     REVOKED      |-> "cancelled"]

(***************************************************************************)
(* The file system: a function from the paths that exist to what was       *)
(* written there.  A path is [dir, name, ext]; ext "" is a name without an *)
(* extension.                                                              *)
(***************************************************************************)
Path(dir, name, ext) == [dir |-> dir, name |-> name, ext |-> ext]

Exists(fs, p) == p \in DOMAIN fs

WriteFile(fs, p, content) ==
    [q \in (DOMAIN fs) \cup {p} |-> IF q = p THEN content ELSE fs[q]]

RemoveFiles(fs, ps) == [q \in (DOMAIN fs) \ ps |-> fs[q]]

\* the task id as it appears in file names (str(uuid))
IdStr(t) == ToString(t)

\* os.path.basename of a path
Basename(p) == [name |-> p.name, ext |-> p.ext]

(***************************************************************************)
(* Inputs of the model.                                                    *)
(***************************************************************************)
\* remote URLs: one that ends in an allowed extension, one that does not
Urls == {"http://h/a.wav", "http://h/a.bin"}

\* remote URLs given to download_media on its own: the two above, one with
\* an extension in capitals, one with a query string after the extension
DownloadUrls == Urls \cup {"http://h/A.WAV", "http://h/a.wav?sig=1"}

\* url.split('.')[-1] of these URLs
UrlLastPart(url) ==
    CASE url = "http://h/a.wav" -> "wav"
      [] url = "http://h/A.WAV" -> "WAV"
      [] url = "http://h/a.wav?sig=1" -> "wav?sig=1"
      [] OTHER -> "bin"

\* str.lower() of these parts
Lower(part) == IF part = "WAV" THEN "wav" ELSE part

\* the media files staged before the service starts: an audio file under the
\* key "k" in uploads, a video file under the key "v" in videos, and a file
\* without extension under the key "n" in uploads
StagedFiles ==
    [p \in {Path(UPLOAD_FOLDER, "k", "wav"), Path(VIDEOS_FOLDER, "v", "mp4"),
            Path(UPLOAD_FOLDER, "n", "")} |->
        [kind |-> "media", by |-> 0]]

\* a body of SubtitleRequest
Request(media_url, media_key, format, cpu, no_mps) ==
    [media_url |-> media_url, media_key |-> media_key, format |-> format,
     cpu |-> cpu, no_mps |-> no_mps]

\* the bodies the model submits: a remote video, a remote audio with an empty
\* key, a local audio with a format that is no subtitle format (the field is
\* a free string), a local key that matches nothing, a URL together with a
\* local video key, a local file without extension, and two bodies without
\* any media reference
Requests ==
    { Request("http://h/a.bin", NoneV, "srt", FALSE, FALSE),
      Request("http://h/a.wav", "", "vtt", TRUE, FALSE),
      Request(NoneV, "k", "mp4", FALSE, TRUE),
      Request(NoneV, "x", "srt", TRUE, FALSE),
      Request(NoneV, "n", "srt", TRUE, FALSE),
      Request("http://h/a.wav", "v", "vtt", TRUE, FALSE),
      Request(NoneV, NoneV, "srt", FALSE, FALSE),
      Request(NoneV, "", "srt", FALSE, FALSE) }

(***************************************************************************)
(* State.                                                                  *)
(***************************************************************************)
VARIABLES
    files,      \* the file system (uploads, results, videos)
    nextId,     \* the next task id that delay() hands out
    args,       \* args[t]: the arguments a job was enqueued with
    pc,         \* pc[t]: where the execution of task t stands
    celery,     \* celery[t]: the result backend's entry [state, info]
    local,      \* local[t]: the local variables of the running task
    calls,      \* calls[t]: the external calls task t has made, in order
    resp,       \* the last answer of a handler that changed the state
    faults      \* the number of calls that have raised so far

vars == <<files, nextId, args, pc, celery, local, calls, resp, faults>>


(***************************************************************************)
(* Python helpers.                                                         *)
(***************************************************************************)
\* dict.get(key, default)
Get(d, k, default) == IF k \in DOMAIN d THEN d[k] ELSE default

\* truth value of a string-or-None
Truthy(x) == x # NoneV /\ x # ""

\* no path (a local variable that holds None)
NoPath == Path("", "", "")

\* no object url (obs_url = None)
NoUrl == [bucket |-> "", key |-> [name |-> "", ext |-> ""]]

\* the first path of a sequence that exists, or NoPath
FirstExisting(fs, seq) ==
    IF \E i \in DOMAIN seq : Exists(fs, seq[i])
    THEN seq[CHOOSE i \in DOMAIN seq :
                 /\ Exists(fs, seq[i])
                 /\ \A j \in DOMAIN seq : Exists(fs, seq[j]) => i <= j]
    ELSE NoPath

(***************************************************************************)
(* The Celery result backend, as the handlers and the task use it.         *)
(***************************************************************************)
\* AsyncResult(task_id) of an id the backend has no entry for
PendingEntry == [state |-> "PENDING", info |-> [none |-> TRUE]]

\* an update that stores the meta and leaves the state as it was
UpdateStateMetaOnly(c, t, state, meta) == [c EXCEPT ![t].info = meta]

\* self.update_state(state=..., meta=...)
UpdateState(c, t, state, meta) == [c EXCEPT ![t] = [state |-> state, info |-> meta]]

\* a task whose return value the backend does not store
TaskReturnIgnored(c, t, value) == c

\* the task function returned value: Celery stores it with state SUCCESS
TaskReturn(c, t, value) == [c EXCEPT ![t] = [state |-> "SUCCESS", info |-> value]]

\* an exception left the task function: Celery stores it with state FAILURE
TaskRaise(c, t, cause) == [c EXCEPT ![t] = [state |-> "FAILURE", info |-> [exc |-> cause]]]

\* the meta dictionaries of the four update_state calls
Meta(state, progress) == [status |-> TASK_STATUS[state], progress |-> progress]

StartedMeta == Meta("STARTED", 0)
\* a download announced with a progress beyond the extraction's
DownloadingMetaLate == Meta("DOWNLOADING", 40)
DownloadingMeta == Meta("DOWNLOADING", 10)
\* an extraction announced with a progress of its own
ExtractingMetaQuarter == Meta("EXTRACTING", 25)
ExtractingMeta == Meta("EXTRACTING", 30)
TranscribingMeta == Meta("TRANSCRIBING", 50)

\* the dictionary the except block returns
FailureResult(cause) == [status |-> TASK_STATUS["FAILURE"], error |-> cause]

(***************************************************************************)
(* worker.py: generate_subtitle_task, its pure parts.                      *)
(***************************************************************************)
DefaultOptions == [format |-> "srt", cpu |-> FALSE, no_mps |-> FALSE]

\* default_options.update(options)
MergeOptions(options) ==
    [k \in (DOMAIN DefaultOptions) \cup (DOMAIN options) |->
        IF k \in DOMAIN options THEN options[k] ELSE DefaultOptions[k]]

\* the order in which the key lookup tries extensions
KEY_SEARCH_EXTENSIONS == VIDEO_EXTENSIONS \o AUDIO_EXTENSIONS

\* the candidates tried for one base path: the path itself, then the path
\* with its extension replaced (os.path.splitext) by each extension the
\* base path does not already end in
KeyCandidates(base) ==
    <<base>> \o
    SelectSeq([i \in DOMAIN KEY_SEARCH_EXTENSIONS |->
                   Path(base.dir, base.name, KEY_SEARCH_EXTENSIONS[i])],
              LAMBDA p : p.ext # base.ext)

\* os.path.dirname of a media key: the keys of the model are plain names,
\* except an absolute path and a path into the parent directory
KeyDirectory(key) ==
    CASE key = "/data/s.wav" -> "/data"
      [] key = "../s.wav" -> ".."
      [] OTHER -> ""

\* os.path.basename of a media key
KeyName(key) == IF key \in {"/data/s.wav", "../s.wav"} THEN "s.wav" ELSE key

\* os.path.splitext of a file name: the names of the model have no dot,
\* except "v.mp4" and "s.wav"
SplitExt(key) ==
    CASE key = "v.mp4" -> <<"v", "mp4">>
      [] key = "s.wav" -> <<"s", "wav">>
      [] OTHER -> <<key, "">>

\* the directory of os.path.join(dir, key): an absolute key discards dir, a
\* key with ".." leaves it
JoinDirectory(dir, key) ==
    CASE KeyDirectory(key) = "" -> dir
      [] KeyDirectory(key) = "/data" -> "/data"
      [] KeyDirectory(key) = ".." /\ dir = UPLOAD_FOLDER -> "uploads/.."
      [] OTHER -> "videos/.."

\* os.path.join(dir, key) as a path
JoinKey(dir, key) ==
    Path(JoinDirectory(dir, key), SplitExt(KeyName(key))[1], SplitExt(KeyName(key))[2])

\* local_paths: the four base paths of the lookup
LocalPaths(key) ==
    <<JoinKey(UPLOAD_FOLDER, key), Path(JoinDirectory(UPLOAD_FOLDER, key), KeyName(key), "mp4"),
      JoinKey(VIDEOS_FOLDER, key), Path(JoinDirectory(VIDEOS_FOLDER, key), KeyName(key), "mp4")>>

\* the media keys of the model
MediaKeys == {"k", "v", "n", "x", "v.mp4", "/data/s.wav", "../s.wav"}

\* the paths the lookup tries for each key, in order
LookupOrder ==
    [key \in MediaKeys |->
        KeyCandidates(LocalPaths(key)[1]) \o
        KeyCandidates(LocalPaths(key)[2]) \o
        KeyCandidates(LocalPaths(key)[3]) \o
        KeyCandidates(LocalPaths(key)[4])]

\* the lookup of a local media key: the first candidate that exists
ResolveLocal(fs, key) == FirstExisting(fs, LookupOrder[key])

\* a file name that takes whatever follows the last dot of the URL
DownloadPathAnyExtension(url, t) ==
    Path(UPLOAD_FOLDER, IdStr(t), Lower(UrlLastPart(url)))

\* download_media: the path the download is written to
DownloadPath(url, t) ==
    LET ext == Lower(UrlLastPart(url)) IN
    Path(UPLOAD_FOLDER, IdStr(t),
         IF ext \in Range(ALLOWED_EXTENSIONS) THEN ext ELSE "mp4")

\* download_media: the directories after a fetch that failed before the
\* file was opened, failed while the file was written, or succeeded
DownloadedFiles(fs, url, t, outcome) ==
    IF outcome = "http_error" THEN fs
    ELSE WriteFile(fs, DownloadPath(url, t), [kind |-> "media", by |-> t])

\* the device the task selects
SelectDevice(options, mps_available, cuda_available) ==
    IF options.cpu THEN "cpu"
    ELSE IF mps_available /\ ~options.no_mps THEN "mps"
    ELSE IF cuda_available THEN "cuda"
    ELSE "cpu"

\* a classification that takes every allowed extension for a video
IsVideoAllowed(media_path) == media_path.ext \in Range(ALLOWED_EXTENSIONS)

\* is_video
IsVideo(media_path) == media_path.ext \in Range(VIDEO_EXTENSIONS)

\* extract_audio: the default output path, beside the input
ExtractOutput(video_file) == Path(video_file.dir, video_file.name, "mp3")

\* output_file of the task
OutputFile(t, options) == Path(RESULT_FOLDER, IdStr(t), options.format)

RecordFile(t) == Path(RESULT_FOLDER, IdStr(t), "json")

SubtitleUrl(subtitle_file) == [prefix |-> "/results/", file |-> Basename(subtitle_file)]

\* OBSStorage.upload_file: (success, object url or error message)
UploadFile(enabled, fs, local_file_path, upload_ok) ==
    IF ~enabled THEN <<FALSE, [error |-> "OBS disabled"]>>
    ELSE IF ~Exists(fs, local_file_path) THEN <<FALSE, [error |-> "no local file"]>>
    ELSE IF upload_ok
         THEN <<TRUE, [bucket |-> OBS_SUBTITLES_BUCKET, key |-> Basename(local_file_path)]>>
         ELSE <<FALSE, [error |-> "upload failed"]>>

\* a record that never carries the object url
ResultRecordNoObs(t, subtitle_file, media_url, options, obs_url) ==
    [task_id |-> IdStr(t),
     status |-> "SUCCESS",
     subtitle_file |-> Basename(subtitle_file),
     subtitle_content |-> [kind |-> "subtitle", by |-> t],
     media_url |-> media_url,
     options |-> options]

\* the record written to <id>.json
ResultRecord(t, subtitle_file, media_url, options, obs_url) ==
    LET base == [task_id |-> IdStr(t),
                 status |-> "SUCCESS",
                 subtitle_file |-> Basename(subtitle_file),
                 subtitle_content |-> [kind |-> "subtitle", by |-> t],
                 media_url |-> media_url,
                 options |-> options]
    IN IF obs_url # NoUrl THEN base @@ [obs_url |-> obs_url] ELSE base

\* a returned dictionary that carries obs_url whatever the upload gave
ResponseDataAlwaysObs(t, subtitle_file, obs_url) ==
    [status |-> TASK_STATUS["SUCCESS"],
     progress |-> 100,
     task_id |-> IdStr(t),
     subtitle_file |-> Basename(subtitle_file),
     subtitle_url |-> SubtitleUrl(subtitle_file),
     obs_url |-> obs_url]

\* the dictionary returned on success
ResponseData(t, subtitle_file, obs_url) ==
    LET base == [status |-> TASK_STATUS["SUCCESS"],
                 progress |-> 100,
                 task_id |-> IdStr(t),
                 subtitle_file |-> Basename(subtitle_file),
                 subtitle_url |-> SubtitleUrl(subtitle_file)]
    IN IF obs_url # NoUrl THEN base @@ [obs_url |-> obs_url] ELSE base


(***************************************************************************)
(* Initial state: nothing submitted, the directories hold staged media.    *)
(***************************************************************************)
NoLocals ==
    [options |-> DefaultOptions, media_path |-> NoPath, audio_path |-> NoPath,
     device |-> "", subtitle_file |-> NoPath, obs_url |-> NoUrl]

Init ==
    /\ files = StagedFiles
    /\ nextId = 1
    /\ args = [t \in TaskIds |-> [media_url |-> NoneV, options |-> DefaultOptions]]
    /\ pc = [t \in TaskIds |-> "none"]
    /\ celery = [t \in TaskIds |-> PendingEntry]
    /\ local = [t \in TaskIds |-> NoLocals]
    /\ calls = [t \in TaskIds |-> <<>>]
    /\ resp = [op |-> "init"]
    /\ faults = 0

\* n more calls raise in this step
Raise(n) == faults + n <= MaxFaults /\ faults' = faults + n

\* the number of failed calls among the given outcomes
Failures(outcomes) == Cardinality({i \in DOMAIN outcomes : ~outcomes[i]})

\* the OBS configuration a worker process may run with: USE_OBS_STORAGE
\* unset, set with a client that initialised, set with a client that did not
ObsModes == {"off", "on", "init_failed"}

\* USE_OBS_STORAGE, and OBSStorage.enabled after __init__
USE_OBS_STORAGE(obs) == obs # "off"
ObsEnabled(obs) == obs = "on"

(***************************************************************************)
(* app.py: create_subtitle_task (POST /api/subtitle).                      *)
(***************************************************************************)
\* the validation of the request
Rejected(request) == ~Truthy(request.media_url) /\ ~Truthy(request.media_key)

\* the options dictionary built from the request
RequestOptions(request) ==
    LET options == [format |-> request.format, cpu |-> request.cpu,
                    no_mps |-> request.no_mps]
    IN IF Truthy(request.media_key)
       THEN options @@ [media_key |-> request.media_key]
       ELSE options

\* a handler that always enqueues the URL and never the key
DelayArgsUrlOnly(request) ==
    [media_url |-> request.media_url,
     options |-> [format |-> request.format, cpu |-> request.cpu,
                  no_mps |-> request.no_mps]]

\* the arguments of generate_subtitle_task.delay
DelayArgs(request) ==
    [media_url |-> IF Truthy(request.media_key) THEN NoneV ELSE request.media_url,
     options |-> RequestOptions(request)]

\* the answer of the handler
SubmitResponse(request, task_id) ==
    IF Rejected(request) THEN [code |-> 400] ELSE [code |-> 200, task_id |-> task_id]

SubmitRejected(request) ==
    /\ Rejected(request)
    /\ UNCHANGED vars

\* a submission that puts its job on the queue twice
SubmitAcceptedTwice(request) ==
    /\ ~Rejected(request)
    /\ nextId \in TaskIds
    /\ nextId + 1 \in TaskIds
    /\ args' = [args EXCEPT ![nextId] = DelayArgs(request), ![nextId + 1] = DelayArgs(request)]
    /\ pc' = [pc EXCEPT ![nextId] = "queued", ![nextId + 1] = "queued"]
    /\ nextId' = nextId + 2
    /\ resp' = [op |-> "submit", request |-> request] @@ SubmitResponse(request, nextId)
    /\ UNCHANGED <<files, celery, local, calls, faults>>

\* delay(): one job on the queue under a new id, which is returned
SubmitAccepted(request) ==
    /\ ~Rejected(request)
    /\ nextId \in TaskIds
    /\ args' = [args EXCEPT ![nextId] = DelayArgs(request)]
    /\ pc' = [pc EXCEPT ![nextId] = "queued"]
    /\ nextId' = nextId + 1
    /\ resp' = [op |-> "submit", request |-> request] @@ SubmitResponse(request, nextId)
    /\ UNCHANGED <<files, celery, local, calls, faults>>

create_subtitle_task ==
    \E request \in Requests : SubmitRejected(request) \/ SubmitAccepted(request)

(***************************************************************************)
(* worker.py: generate_subtitle_task, one action per blocking stage.       *)
(***************************************************************************)
Running == {t \in TaskIds : pc[t] \notin {"none", "queued", "done"}}

Log(t, call) == [calls EXCEPT ![t] = Append(@, call)]

\* an except block that announces a retry instead of returning
FailAsRetry(c, t, cause) == UpdateState(c, t, "RETRY", FailureResult(cause))

\* the except block: log, return the failure dictionary
Fail(c, t, cause) == TaskReturn(c, t, FailureResult(cause))

\* an update_state inside the try block, followed by the next stage
UpdateOrFail(t, state, meta, ok, next) ==
    IF ok
    THEN /\ celery' = UpdateState(celery, t, state, meta)
         /\ pc' = [pc EXCEPT ![t] = next]
    ELSE /\ celery' = Fail(celery, t, "update_state")
         /\ pc' = [pc EXCEPT ![t] = "done"]

\* a worker takes the oldest job: options merged, state STARTED announced
\* (outside the try block)
TaskStart(t) ==
    /\ pc[t] = "queued"
    /\ \A u \in TaskIds : pc[u] = "queued" => t <= u
    /\ Cardinality(Running) < MaxWorkers
    /\ local' = [local EXCEPT ![t].options = MergeOptions(args[t].options)]
    /\ \E ok \in BOOLEAN :
         /\ Raise(Failures(<<ok>>))
         /\ IF ok
            THEN /\ celery' = UpdateState(celery, t, "STARTED", StartedMeta)
                 /\ pc' = [pc EXCEPT ![t] = "resolve"]
            ELSE /\ celery' = TaskRaise(celery, t, "update_state")
                 /\ pc' = [pc EXCEPT ![t] = "done"]
    /\ UNCHANGED <<files, nextId, args, calls, resp>>

\* media resolution: the local lookup, or the announcement of the download
TaskResolve(t) ==
    /\ pc[t] = "resolve"
    /\ LET media_key == Get(local[t].options, "media_key", NoneV)
           media_url == args[t].media_url
       IN IF Truthy(media_key)
          THEN LET media_path == ResolveLocal(files, media_key) IN
               IF media_path = NoPath
               THEN /\ celery' = Fail(celery, t, "FileNotFoundError")
                    /\ pc' = [pc EXCEPT ![t] = "done"]
                    /\ UNCHANGED <<local, faults>>
               ELSE /\ local' = [local EXCEPT ![t].media_path = media_path]
                    /\ pc' = [pc EXCEPT ![t] = "classify"]
                    /\ UNCHANGED <<celery, faults>>
          ELSE IF ~Truthy(media_url)
               THEN /\ celery' = Fail(celery, t, "ValueError")
                    /\ pc' = [pc EXCEPT ![t] = "done"]
                    /\ UNCHANGED <<local, faults>>
               ELSE /\ \E ok \in BOOLEAN :
                         /\ Raise(Failures(<<ok>>))
                         /\ UpdateOrFail(t, "DOWNLOADING", DownloadingMeta, ok, "download")
                    /\ UNCHANGED local
    /\ UNCHANGED <<files, nextId, args, calls, resp>>

\* download_media: the fetch fails before the file is opened, or while it
\* is written, or succeeds
TaskDownload(t) ==
    /\ pc[t] = "download"
    /\ LET filepath == DownloadPath(args[t].media_url, t) IN
       \E outcome \in {"ok", "http_error", "write_error"} :
         /\ Raise(Failures(<<outcome = "ok">>))
         /\ calls' = Log(t, [op |-> "download", path |-> filepath, ok |-> outcome = "ok"])
         /\ files' = DownloadedFiles(files, args[t].media_url, t, outcome)
         /\ IF outcome = "ok"
            THEN /\ local' = [local EXCEPT ![t].media_path = filepath]
                 /\ pc' = [pc EXCEPT ![t] = "classify"]
                 /\ UNCHANGED celery
            ELSE /\ celery' = Fail(celery, t, "download")
                 /\ pc' = [pc EXCEPT ![t] = "done"]
                 /\ UNCHANGED local
    /\ UNCHANGED <<nextId, args, resp>>

\* device selection, classification of the media, announcement of the next stage
TaskClassify(t) ==
    /\ pc[t] = "classify"
    /\ \E mps_available \in BOOLEAN, cuda_available \in BOOLEAN, ok \in BOOLEAN :
         LET device == SelectDevice(local[t].options, mps_available, cuda_available) IN
         /\ Raise(Failures(<<ok>>))
         /\ IF IsVideo(local[t].media_path)
            THEN /\ local' = [local EXCEPT ![t].device = device]
                 /\ UpdateOrFail(t, "EXTRACTING", ExtractingMeta, ok, "extract")
            ELSE /\ local' = [local EXCEPT ![t].device = device,
                                           ![t].audio_path = local[t].media_path]
                 /\ UpdateOrFail(t, "TRANSCRIBING", TranscribingMeta, ok, "generate")
    /\ UNCHANGED <<files, nextId, args, calls, resp>>

\* extract_audio, then the announcement of the transcription
TaskExtract(t) ==
    /\ pc[t] = "extract"
    /\ LET output_audio == ExtractOutput(local[t].media_path) IN
       \E extracted \in BOOLEAN, ok \in BOOLEAN :
         /\ extracted \/ ok
         /\ Raise(Failures(<<extracted, ok>>))
         /\ calls' = Log(t, [op |-> "extract_audio", path |-> output_audio, ok |-> extracted])
         /\ IF extracted
            THEN /\ files' = WriteFile(files, output_audio, [kind |-> "audio", by |-> t])
                 /\ local' = [local EXCEPT ![t].audio_path = output_audio]
                 /\ UpdateOrFail(t, "TRANSCRIBING", TranscribingMeta, ok, "generate")
            ELSE /\ celery' = Fail(celery, t, "extract_audio")
                 /\ pc' = [pc EXCEPT ![t] = "done"]
                 /\ UNCHANGED <<files, local>>
    /\ UNCHANGED <<nextId, args, resp>>


(***************************************************************************)
(* core/generator.py: generate_subtitles, up to the subtitle file.  The    *)
(* model is loaded on the device, with one fallback to the CPU; then the   *)
(* audio is transcribed, once.                                             *)
(***************************************************************************)
\* the call of generate_subtitles itself, with the file it is given
GenerateCall(audio_file, output_file) ==
    [op |-> "generate_subtitles", audio_file |-> audio_file, output_file |-> output_file]

LoadCall(device, ok) == [op |-> "load_model", device |-> device, ok |-> ok]
TranscribeCall(device, ok) == [op |-> "transcribe", device |-> device, ok |-> ok]

\* a loading without the fallback to the CPU
LoadModelNoFallback(device, load_ok, fallback_ok) ==
    [calls |-> <<LoadCall(device, load_ok)>>, device |-> device,
     raised |-> IF load_ok THEN "none" ELSE "load_model"]

\* the calls of the model loading and the device left in use
LoadModel(device, load_ok, fallback_ok) ==
    IF load_ok
    THEN [calls |-> <<LoadCall(device, TRUE)>>, device |-> device, raised |-> "none"]
    ELSE [calls |-> <<LoadCall(device, FALSE), LoadCall("cpu", fallback_ok)>>,
          device |-> "cpu",
          raised |-> IF fallback_ok THEN "none" ELSE "load_model"]

\* the calls of model.transcribe
Transcribe(device, transcribe_ok) ==
    [calls |-> <<TranscribeCall(device, transcribe_ok)>>,
     raised |-> IF transcribe_ok THEN "none" ELSE "transcribe"]

\* generate_subtitles: the calls made and the exception raised, if any
GenerateSubtitles(device, load_ok, fallback_ok, transcribe_ok) ==
    LET loaded == LoadModel(device, load_ok, fallback_ok) IN
    IF loaded.raised # "none"
    THEN [calls |-> loaded.calls, raised |-> loaded.raised]
    ELSE LET transcribed == Transcribe(loaded.device, transcribe_ok) IN
         [calls |-> loaded.calls \o transcribed.calls, raised |-> transcribed.raised]

\* the formats format_timestamp knows
SupportedFormat(format_type) == format_type \in {"srt", "vtt"}

\* the writing of the subtitle file raises: the file has been opened, and
\* format_timestamp raises ValueError on the first segment of any other
\* format; a transcription without segments writes an empty file
WriteRaises(format_type, has_segments) == has_segments /\ ~SupportedFormat(format_type)

\* the transcription stage of the task: the transcription has segments or,
\* which makes a difference for the other formats only, has none
TaskGenerate(t) ==
    /\ pc[t] = "generate"
    /\ LET output_file == OutputFile(t, local[t].options)
           format_type == local[t].options.format
       IN
       \E load_ok \in BOOLEAN, fallback_ok \in BOOLEAN, transcribe_ok \in BOOLEAN,
          has_segments \in BOOLEAN :
         LET g == GenerateSubtitles(local[t].device, load_ok, fallback_ok, transcribe_ok)
             raised == IF g.raised # "none" THEN g.raised
                       ELSE IF WriteRaises(format_type, has_segments) THEN "format_timestamp"
                       ELSE "none"
         IN
         /\ has_segments \/ ~SupportedFormat(format_type)
         /\ Raise(Failures([i \in DOMAIN g.calls |-> g.calls[i].ok]))
         /\ calls' = [calls EXCEPT ![t] =
                         @ \o <<GenerateCall(local[t].audio_path, output_file)>> \o g.calls]
         /\ files' = IF g.raised = "none"
                     THEN WriteFile(files, output_file, [kind |-> "subtitle", by |-> t])
                     ELSE files
         /\ IF raised = "none"
            THEN /\ local' = [local EXCEPT ![t].subtitle_file = output_file]
                 /\ pc' = [pc EXCEPT ![t] = "publish"]
                 /\ UNCHANGED celery
            ELSE /\ celery' = Fail(celery, t, raised)
                 /\ pc' = [pc EXCEPT ![t] = "done"]
                 /\ UNCHANGED local
    /\ UNCHANGED <<nextId, args, resp>>

\* the upload to OBS, the record, the returned dictionary; the record is not
\* written when its file cannot be opened, and is left unfinished when
\* json.dump raises
TaskPublish(t) ==
    /\ pc[t] = "publish"
    /\ LET subtitle_file == local[t].subtitle_file IN
       \E obs \in ObsModes, upload_ok \in BOOLEAN,
          record \in {"ok", "open_error", "dump_error"} :
         LET uploaded == UploadFile(ObsEnabled(obs), files, subtitle_file, upload_ok)
             obs_url == IF USE_OBS_STORAGE(obs) /\ uploaded[1] THEN uploaded[2] ELSE NoUrl
         IN
         /\ upload_ok \/ (ObsEnabled(obs) /\ Exists(files, subtitle_file))
         /\ record = "ok" \/ Exists(files, subtitle_file)
         /\ Raise(Failures(<<upload_ok, record = "ok">>))
         /\ calls' = IF USE_OBS_STORAGE(obs)
                     THEN Log(t, [op |-> "upload_file", ok |-> uploaded[1]])
                     ELSE calls
         /\ local' = [local EXCEPT ![t].obs_url = obs_url]
         /\ pc' = [pc EXCEPT ![t] = "done"]
         /\ IF ~Exists(files, subtitle_file)
            THEN /\ celery' = Fail(celery, t, "read_subtitle")
                 /\ UNCHANGED files
            ELSE IF record = "ok"
            THEN /\ files' = WriteFile(files, RecordFile(t),
                                 ResultRecord(t, subtitle_file, args[t].media_url,
                                              local[t].options, obs_url))
                 /\ celery' = TaskReturn(celery, t, ResponseData(t, subtitle_file, obs_url))
            ELSE /\ files' = IF record = "open_error" THEN files
                            ELSE WriteFile(files, RecordFile(t), [corrupt |-> TRUE])
                 /\ celery' = Fail(celery, t, "write_record")
    /\ UNCHANGED <<nextId, args, resp>>

\* the next step of the execution of task t
TaskStep(t) ==
    \/ TaskStart(t)
    \/ TaskResolve(t)
    \/ TaskDownload(t)
    \/ TaskClassify(t)
    \/ TaskExtract(t)
    \/ TaskGenerate(t)
    \/ TaskPublish(t)

generate_subtitle_task == \E t \in TaskIds : TaskStep(t)

(***************************************************************************)
(* app.py: get_subtitle_task (GET /api/subtitle/{task_id}).                *)
(***************************************************************************)
\* a dictionary, as opposed to the exception instance of a raised task
IsDict(info) == "exc" \notin DOMAIN info

\* the response for a backend entry
StatusResponse(task_id, entry) ==
    LET response == [task_id |-> task_id, status |-> "", progress |-> 0] IN
    IF entry.state = "PENDING"
    THEN [code |-> 200, body |-> [response EXCEPT !.status = TASK_STATUS["PENDING"]]]
    ELSE IF entry.state = "FAILURE"
    THEN IF IsDict(entry.info)
         THEN [code |-> 200,
               body |-> [response EXCEPT !.status = TASK_STATUS["FAILURE"]] @@
                        [error |-> Get(entry.info, "error", "Unknown error")]]
         ELSE [code |-> 500]
    ELSE IF entry.state \in {"STARTED", "DOWNLOADING", "EXTRACTING", "TRANSCRIBING"}
    THEN [code |-> 200,
          body |-> [response EXCEPT !.status = Get(TASK_STATUS, entry.state, entry.state),
                                    !.progress = Get(entry.info, "progress", 0)]]
    ELSE IF entry.state = "SUCCESS"
    THEN [code |-> 200,
          body |-> [response EXCEPT !.status = TASK_STATUS["SUCCESS"], !.progress = 100] @@
                   (IF DOMAIN entry.info # {} THEN [result |-> entry.info] ELSE <<>>)]
    ELSE [code |-> 200, body |-> response]

\* the handler reads the backend and changes nothing
get_subtitle_task ==
    \E t \in TaskIds :
        /\ StatusResponse(IdStr(t), celery[t]).code \in {200, 500}
        /\ UNCHANGED vars

(***************************************************************************)
(* app.py: download_subtitle (GET /api/subtitle/{task_id}/download).       *)
(***************************************************************************)
\* os.path.join(RESULT_FOLDER, name) for a file name
ResultPath(filename) == Path(RESULT_FOLDER, filename.name, filename.ext)

\* a download that looks for the local file before the object URL
DownloadResponseLocalFirst(entry, fs) ==
    IF entry.state # "SUCCESS" THEN [code |-> 404]
    ELSE IF "subtitle_file" \in DOMAIN entry.info
            /\ Exists(fs, ResultPath(entry.info.subtitle_file))
    THEN [code |-> 200, path |-> ResultPath(entry.info.subtitle_file),
          filename |-> entry.info.subtitle_file]
    ELSE IF "obs_url" \in DOMAIN entry.info
    THEN [code |-> 307, url |-> entry.info.obs_url]
    ELSE [code |-> 404]

\* the response for a backend entry: 404, a redirect, or the file
DownloadResponse(entry, fs) ==
    IF entry.state # "SUCCESS" THEN [code |-> 404]
    ELSE IF DOMAIN entry.info # {} /\ "obs_url" \in DOMAIN entry.info
    THEN [code |-> 307, url |-> entry.info.obs_url]
    ELSE IF /\ DOMAIN entry.info # {}
            /\ "subtitle_file" \in DOMAIN entry.info
            /\ Exists(fs, ResultPath(entry.info.subtitle_file))
    THEN [code |-> 200, path |-> ResultPath(entry.info.subtitle_file),
          filename |-> entry.info.subtitle_file]
    ELSE [code |-> 404]

\* the handler reads the backend and the results directory and changes nothing
download_subtitle ==
    \E t \in TaskIds :
        /\ DownloadResponse(celery[t], files).code \in {200, 307, 404}
        /\ UNCHANGED vars

(***************************************************************************)
(* app.py: list_tasks (GET /api/tasks).                                    *)
(***************************************************************************)
\* a listing that takes every file for a record
ParsesAlways(content) == TRUE

\* json.load succeeds: the file is a record written to its end, not an
\* unfinished one and not a subtitle file
Parses(content) ==
    "corrupt" \notin DOMAIN content /\ Get(content, "kind", "record") # "subtitle"

\* the listed records, each with task_id set from its file name
ListTasks(fs) ==
    { [k \in (DOMAIN fs[p]) \cup {"task_id"} |->
          IF k = "task_id" THEN p.name ELSE fs[p][k]] :
      p \in {q \in DOMAIN fs : q.dir = RESULT_FOLDER /\ q.ext = "json" /\ Parses(fs[q])} }

\* the handler reads the results directory and changes nothing
list_tasks ==
    /\ ListTasks(files) \subseteq ListTasks(files)
    /\ UNCHANGED vars

(***************************************************************************)
(* app.py: delete_task (DELETE /api/tasks/{task_id}).                      *)
(***************************************************************************)
RESULT_DELETE_EXTENSIONS == <<"json", "srt", "vtt", "mp3", "wav", "ogg", "flac", "m4a">>

\* the paths the two loops try, in order
DeleteCandidates(task_id) ==
    [i \in DOMAIN RESULT_DELETE_EXTENSIONS |->
        Path(RESULT_FOLDER, task_id, RESULT_DELETE_EXTENSIONS[i])] \o
    [i \in DOMAIN ALLOWED_EXTENSIONS |->
        Path(UPLOAD_FOLDER, task_id, ALLOWED_EXTENSIONS[i])]

\* a list that names every file the loops tried to remove
DeletedFilesAttempted(fs, task_id, failed) ==
    LET tried == SelectSeq(DeleteCandidates(task_id), LAMBDA p : Exists(fs, p))
    IN [i \in DOMAIN tried |-> Basename(tried[i])]

\* deleted_files: the names of the files whose os.remove did not raise
DeletedFiles(fs, task_id, failed) ==
    LET removed == SelectSeq(DeleteCandidates(task_id),
                             LAMBDA p : Exists(fs, p) /\ p \notin failed)
    IN [i \in DOMAIN removed |-> Basename(removed[i])]

\* the files left after the two loops
AfterDelete(fs, task_id, failed) ==
    RemoveFiles(fs, {p \in Range(DeleteCandidates(task_id)) : Exists(fs, p)} \ failed)

\* the check that the task exists
DeleteFound(fs, task_id) == Exists(fs, Path(RESULT_FOLDER, task_id, "json"))

\* the sets of files whose os.remove may raise in one call
RemoveFailures(fs, task_id) ==
    SUBSET {p \in Range(DeleteCandidates(task_id)) : Exists(fs, p)}

DeleteNotFound(t) ==
    /\ ~DeleteFound(files, IdStr(t))
    /\ UNCHANGED vars

DeleteFiles(t) ==
    /\ DeleteFound(files, IdStr(t))
    /\ \E failed \in RemoveFailures(files, IdStr(t)) :
         /\ Raise(Cardinality(failed))
         /\ files' = AfterDelete(files, IdStr(t), failed)
         /\ resp' = [op |-> "delete", id |-> t, code |-> 200,
                     deleted_files |-> DeletedFiles(files, IdStr(t), failed)]
    /\ UNCHANGED <<nextId, args, pc, celery, local, calls>>

delete_task == \E t \in TaskIds : DeleteNotFound(t) \/ DeleteFiles(t)

(***************************************************************************)
(* The service: the handlers and the worker, interleaved.                  *)
(***************************************************************************)
Next ==
    \/ create_subtitle_task
    \/ generate_subtitle_task
    \/ get_subtitle_task
    \/ download_subtitle
    \/ list_tasks
    \/ delete_task

Spec == Init /\ [][Next]_vars

\* a worker that has a job to take or a stage to run goes on: every external
\* call returns or raises
FairSpec == Spec /\ \A t \in TaskIds : WF_vars(TaskStep(t))

(***************************************************************************)
(* src/app.py: delete_subtitle_task (DELETE /api/subtitle/{task_id}), the  *)
(* handler of the flat layout the package was made from.  It has no check  *)
(* of the record and no handler around os.remove.                          *)
(***************************************************************************)
\* config.ALLOWED_EXTENSIONS of the flat layout, a set
LEGACY_ALLOWED_EXTENSIONS == {"mp3", "wav", "ogg", "flac", "mp4", "avi", "mov", "mkv", "webm"}

\* the result files the handler tries, in order
LegacyResultFiles(task_id) ==
    <<Path(RESULT_FOLDER, task_id, "json"),
      Path(RESULT_FOLDER, task_id, "srt"),
      Path(RESULT_FOLDER, task_id, "vtt")>>

\* the upload files the handler tries, in the order of the set's iteration
LegacyUploadFiles(task_id) ==
    {Path(UPLOAD_FOLDER, task_id, ext) : ext \in LEGACY_ALLOWED_EXTENSIONS}

\* the files the handler finds
LegacyExisting(fs, task_id) ==
    {p \in Range(LegacyResultFiles(task_id)) \cup LegacyUploadFiles(task_id) : Exists(fs, p)}

\* the sets of files that may be gone when os.remove raises on path p
LegacyRemovedBefore(fs, task_id, p) ==
    LET results == LegacyResultFiles(task_id)
        found == LegacyExisting(fs, task_id)
    IN IF p.dir = RESULT_FOLDER
       THEN {{results[i] : i \in {j \in DOMAIN results :
                                     /\ results[j] \in found
                                     /\ \E k \in DOMAIN results : results[k] = p /\ j < k}}}
       ELSE {(found \cap Range(results)) \cup others :
                others \in SUBSET ((found \cap LegacyUploadFiles(task_id)) \ {p})}

\* nothing to delete: 404, nothing changes
LegacyDeleteNotFound(t) ==
    /\ LegacyExisting(files, IdStr(t)) = {}
    /\ UNCHANGED vars

\* every file found is removed
LegacyDeleteAll(t) ==
    /\ LegacyExisting(files, IdStr(t)) # {}
    /\ files' = RemoveFiles(files, LegacyExisting(files, IdStr(t)))
    /\ resp' = [op |-> "delete_subtitle_task", id |-> t, code |-> 200]
    /\ UNCHANGED <<nextId, args, pc, celery, local, calls, faults>>

\* os.remove raises on one of the files: the exception leaves the handler
LegacyDeleteRaises(t) ==
    /\ \E p \in LegacyExisting(files, IdStr(t)) :
         \E removed \in LegacyRemovedBefore(files, IdStr(t), p) :
            /\ Raise(1)
            /\ files' = RemoveFiles(files, removed)
            /\ resp' = [op |-> "delete_subtitle_task", id |-> t, code |-> 500]
    /\ UNCHANGED <<nextId, args, pc, celery, local, calls>>

delete_subtitle_task ==
    \E t \in TaskIds :
        LegacyDeleteNotFound(t) \/ LegacyDeleteAll(t) \/ LegacyDeleteRaises(t)

\* the service with the handlers of both layouts
LegacyNext ==
    \/ Next
    \/ delete_subtitle_task

LegacySpec == Init /\ [][LegacyNext]_vars

(***************************************************************************)
(* app.py: SubtitleRequest.format is Optional[str], any string is          *)
(* accepted.  The service with submissions whose format is a subtitle      *)
(* format or the extension of the record.                                  *)
(***************************************************************************)
\* values of the format field
FormatValues == {"srt", "json"}

\* the bodies submitted: a remote video and a local audio in each format,
\* and a body without media reference
FormatRequests ==
    {Request("http://h/a.bin", NoneV, format, TRUE, FALSE) : format \in FormatValues} \cup
    {Request(NoneV, "k", format, TRUE, FALSE) : format \in FormatValues} \cup
    {Request(NoneV, NoneV, "json", TRUE, FALSE)}

FormatSubmit ==
    \E request \in FormatRequests : SubmitRejected(request) \/ SubmitAccepted(request)

FormatNext ==
    \/ FormatSubmit
    \/ generate_subtitle_task
    \/ get_subtitle_task
    \/ download_subtitle
    \/ list_tasks
    \/ delete_task

FormatSpec == Init /\ [][FormatNext]_vars


(***************************************************************************)
(* worker.py: the lookup of a local media key on its own, over every       *)
(* content of the two directories it searches.                             *)
(***************************************************************************)
\* the keys looked up: a bare name and a file name
ResolverKeys == {"v", "v.mp4"}

\* the files that may be staged under these names
ResolverFiles ==
    {Path(dir, name, ext) : dir \in {UPLOAD_FOLDER, VIDEOS_FOLDER},
                            name \in {"v"}, ext \in {"", "mp4", "wav"}} \cup
    {Path(dir, "v.mp4", "wav") : dir \in {UPLOAD_FOLDER, VIDEOS_FOLDER}}

ResolverInit ==
    /\ files \in {[p \in staged |-> [kind |-> "media", by |-> 0]] :
                     staged \in SUBSET ResolverFiles}
    /\ nextId = 1
    /\ args = [t \in TaskIds |-> [media_url |-> NoneV, options |-> DefaultOptions]]
    /\ pc = [t \in TaskIds |-> "none"]
    /\ celery = [t \in TaskIds |-> PendingEntry]
    /\ local = [t \in TaskIds |-> NoLocals]
    /\ calls = [t \in TaskIds |-> <<>>]
    /\ resp = [op |-> "init"]
    /\ faults = 0

\* lines 115-149 for one key: media_path, or FileNotFoundError
Lookup(media_key) ==
    LET media_path == ResolveLocal(files, media_key) IN
    /\ resp' = [op |-> "lookup", media_key |-> media_key,
                media_path |-> media_path,
                raised |-> IF media_path = NoPath THEN "FileNotFoundError" ELSE "none"]
    /\ UNCHANGED <<files, nextId, args, pc, celery, local, calls, faults>>

LocalLookup == \E media_key \in ResolverKeys : Lookup(media_key)

ResolverNext == LocalLookup

ResolverSpec == ResolverInit /\ [][ResolverNext]_vars

\* the lookup of keys that are paths: media_key is Optional[str] and is
\* joined to the directories as it was submitted
PathKeys == {"v", "/data/s.wav", "../s.wav"}

\* the files that may exist: three in the searched directories, one at the
\* absolute path, two beside the searched directories
PathKeyFiles ==
    {Path(UPLOAD_FOLDER, "v", "mp4"), Path(VIDEOS_FOLDER, "v", "wav"),
     Path(UPLOAD_FOLDER, "s", "wav"), Path("/data", "s", "wav"),
     Path("uploads/..", "s", "wav"), Path("videos/..", "s", "mp3")}

PathKeyInit ==
    /\ files \in {[p \in existing |-> [kind |-> "media", by |-> 0]] :
                     existing \in SUBSET PathKeyFiles}
    /\ nextId = 1
    /\ args = [t \in TaskIds |-> [media_url |-> NoneV, options |-> DefaultOptions]]
    /\ pc = [t \in TaskIds |-> "none"]
    /\ celery = [t \in TaskIds |-> PendingEntry]
    /\ local = [t \in TaskIds |-> NoLocals]
    /\ calls = [t \in TaskIds |-> <<>>]
    /\ resp = [op |-> "init"]
    /\ faults = 0

PathKeyLookup == \E media_key \in PathKeys : Lookup(media_key)

PathKeySpec == PathKeyInit /\ [][PathKeyLookup]_vars


(***************************************************************************)
(* worker.py: download_media on its own, called any number of times with   *)
(* any URL and task id.                                                    *)
(***************************************************************************)
\* one call: the file is written unless the fetch fails before it is
\* opened; the path is returned when nothing raised.  The answer notes
\* whether the call before it had the same arguments.
DownloadMedia ==
    \E url \in DownloadUrls, t \in TaskIds, outcome \in {"ok", "http_error", "write_error"} :
        /\ files' = DownloadedFiles(files, url, t, outcome)
        /\ resp' = [op |-> "download_media", url |-> url, task_id |-> t,
                    outcome |-> outcome,
                    filepath |-> IF outcome = "ok" THEN DownloadPath(url, t) ELSE NoPath,
                    again |-> /\ resp.op = "download_media"
                              /\ resp.url = url
                              /\ resp.task_id = t]
        /\ UNCHANGED <<nextId, args, pc, celery, local, calls, faults>>

DownloadNext == DownloadMedia

DownloadSpec == Init /\ [][DownloadNext]_vars


(***************************************************************************)
(* app.py: extract_audio_from_video_url (POST /api/extract-audio).  The    *)
(* handler makes an id of its own (uuid4; the counter of the model hands   *)
(* it out), downloads the URL, and extracts the audio into results.        *)
(***************************************************************************)
\* values of AudioExtractionRequest.audio_format
AudioFormats == {"mp3", "wav"}

\* the exceptions the try block of the handler can raise
ExtractExceptions == {"download", "HTTPException_400", "extract_audio"}

\* except Exception: HTTPException derives from Exception, so the clause
\* catches the handler's own HTTPException as it catches any other
CaughtByExceptException(exception) == exception \in ExtractExceptions

\* what the try block raises, or "none"
ExtractRaised(video_path, outcome, extracted) ==
    IF outcome # "ok" THEN "download"
    ELSE IF ~IsVideo(video_path) THEN "HTTPException_400"
    ELSE IF ~extracted THEN "extract_audio"
    ELSE "none"

\* the answer: the dictionary, or the HTTPException that leaves the handler
ExtractResponse(t, audio_path, raised) ==
    IF raised = "none"
    THEN [code |-> 200, task_id |-> IdStr(t),
          audio_url |-> [prefix |-> "/results/", file |-> Basename(audio_path)],
          filename |-> Basename(audio_path)]
    ELSE IF CaughtByExceptException(raised)
    THEN [code |-> 500, detail |-> raised]
    ELSE [code |-> 400, detail |-> raised]

extract_audio_from_video_url ==
    \E url \in DownloadUrls, audio_format \in AudioFormats,
       outcome \in {"ok", "http_error", "write_error"}, extracted \in BOOLEAN :
        LET t == nextId
            video_path == DownloadPath(url, t)
            audio_path == Path(RESULT_FOLDER, IdStr(t), audio_format)
            raised == ExtractRaised(video_path, outcome, extracted)
            reached == outcome = "ok" /\ IsVideo(video_path)
            downloaded == DownloadedFiles(files, url, t, outcome)
        IN /\ nextId \in TaskIds
           /\ reached \/ extracted
           /\ nextId' = nextId + 1
           /\ files' = IF reached /\ extracted
                       THEN WriteFile(downloaded, audio_path, [kind |-> "audio", by |-> t])
                       ELSE downloaded
           /\ calls' = IF reached
                       THEN Log(t, [op |-> "extract_audio", path |-> audio_path,
                                    ok |-> extracted])
                       ELSE calls
           /\ resp' = [op |-> "extract_audio_from_video_url", url |-> url, id |-> t,
                       audio_format |-> audio_format,
                       outcome |-> outcome, video_path |-> video_path,
                       answer |-> ExtractResponse(t, audio_path, raised)]
           /\ UNCHANGED <<args, pc, celery, local, faults>>

ExtractNext == extract_audio_from_video_url

ExtractSpec == Init /\ [][ExtractNext]_vars


(***************************************************************************)
(* core/generator.py: the text of a segment and its wrapping.  A text is a *)
(* sequence of characters.                                                 *)
(***************************************************************************)
\* the longest segment text of the model
MaxTextLen == 8
\* the largest max_line_length of the model
MaxLineLength == 4

\* the characters of the segment texts
TextChars == {"a", "b", " "}

\* the segment texts: every sequence of these characters up to the bound
SegmentTexts == UNION {[1..n -> TextChars] : n \in 0..MaxTextLen}

\* str.isspace of one character
IsSpace(c) == c \in {" ", "\n"}

RECURSIVE LStrip(_)
LStrip(text) ==
    IF text # <<>> /\ IsSpace(Head(text)) THEN LStrip(Tail(text)) ELSE text

RECURSIVE RStrip(_)
RStrip(text) ==
    IF text # <<>> /\ IsSpace(text[Len(text)])
    THEN RStrip(SubSeq(text, 1, Len(text) - 1))
    ELSE text

\* str.strip()
Strip(text) == RStrip(LStrip(text))

\* str.split(): the words between runs of white space
RECURSIVE SplitWords(_, _)
SplitWords(text, word) ==
    IF text = <<>>
    THEN IF word = <<>> THEN <<>> ELSE <<word>>
    ELSE IF IsSpace(Head(text))
    THEN (IF word = <<>> THEN <<>> ELSE <<word>>) \o SplitWords(Tail(text), <<>>)
    ELSE SplitWords(Tail(text), Append(word, Head(text)))

Split(text) == SplitWords(text, <<>>)

\* separator.join(lines)
RECURSIVE Join(_, _)
Join(lines, separator) ==
    IF lines = <<>> THEN <<>>
    ELSE IF Len(lines) = 1 THEN lines[1]
    ELSE lines[1] \o separator \o Join(Tail(lines), separator)

\* a loop that ends without the line it was filling
RECURSIVE WrapWordsUnfinished(_, _, _, _)
WrapWordsUnfinished(words, lines, current_line, max_line_length) ==
    IF words = <<>>
    THEN lines
    ELSE LET word == Head(words) IN
         IF Len(current_line) + Len(word) + 1 > max_line_length /\ current_line # <<>>
         THEN WrapWordsUnfinished(Tail(words), Append(lines, current_line), word,
                                  max_line_length)
         ELSE WrapWordsUnfinished(Tail(words), lines,
                                  IF current_line # <<>> THEN current_line \o <<" ">> \o word
                                  ELSE word,
                                  max_line_length)

\* a loop that forgets the space when it measures the line
RECURSIVE WrapWordsNoSpace(_, _, _, _)
WrapWordsNoSpace(words, lines, current_line, max_line_length) ==
    IF words = <<>>
    THEN IF current_line # <<>> THEN Append(lines, current_line) ELSE lines
    ELSE LET word == Head(words) IN
         IF Len(current_line) + Len(word) > max_line_length /\ current_line # <<>>
         THEN WrapWordsNoSpace(Tail(words), Append(lines, current_line), word, max_line_length)
         ELSE WrapWordsNoSpace(Tail(words), lines,
                               IF current_line # <<>> THEN current_line \o <<" ">> \o word
                               ELSE word,
                               max_line_length)

\* the loop over the words: lines, the line being filled
RECURSIVE WrapWords(_, _, _, _)
WrapWords(words, lines, current_line, max_line_length) ==
    IF words = <<>>
    THEN IF current_line # <<>> THEN Append(lines, current_line) ELSE lines
    ELSE LET word == Head(words) IN
         IF Len(current_line) + Len(word) + 1 > max_line_length /\ current_line # <<>>
         THEN WrapWords(Tail(words), Append(lines, current_line), word, max_line_length)
         ELSE WrapWords(Tail(words), lines,
                        IF current_line # <<>> THEN current_line \o <<" ">> \o word
                        ELSE word,
                        max_line_length)

\* the text of a segment as it is written: stripped, and wrapped when a
\* max_line_length is given (0: none) and the text is longer
WrapText(segment_text, max_line_length) ==
    LET text == Strip(segment_text) IN
    IF max_line_length # 0 /\ Len(text) > max_line_length
    THEN Join(WrapWords(Split(text), <<>>, <<>>, max_line_length), <<"\n">>)
    ELSE text

\* the variables the functions of generator.py do not touch
ServiceIdle ==
    /\ files = StagedFiles
    /\ nextId = 1
    /\ args = [t \in TaskIds |-> [media_url |-> NoneV, options |-> DefaultOptions]]
    /\ pc = [t \in TaskIds |-> "none"]
    /\ celery = [t \in TaskIds |-> PendingEntry]
    /\ local = [t \in TaskIds |-> NoLocals]
    /\ calls = [t \in TaskIds |-> <<>>]
    /\ faults = 0

\* a segment text and a max_line_length are given
WrapInit ==
    /\ ServiceIdle
    /\ resp \in {[op |-> "segment", text |-> text, max_line_length |-> max_line_length] :
                    text \in SegmentTexts, max_line_length \in 1..MaxLineLength}

\* lines 159-181 for the segment
WrapSegment ==
    /\ resp.op = "segment"
    /\ resp' = [op |-> "wrapped", text |-> resp.text,
                max_line_length |-> resp.max_line_length,
                output |-> WrapText(resp.text, resp.max_line_length)]
    /\ UNCHANGED <<files, nextId, args, pc, celery, local, calls, faults>>

WrapNext == WrapSegment

WrapSpec == WrapInit /\ [][WrapNext]_vars


(***************************************************************************)
(* core/generator.py: format_timestamp and the writing of the subtitle     *)
(* file.  A time is a number of ten-thousandths of a second; what is       *)
(* written is a sequence of characters.                                    *)
(***************************************************************************)
\* the largest number of segments of a transcription
MaxSegments == 3

\* the segments a transcription is made of
RenderSegments ==
    { [start |-> 0, end |-> 15009, text |-> <<"a">>],
      [start |-> 15009, end |-> 37230040, text |-> <<" ", "a", " ", "b">>],
      [start |-> 37230040, end |-> 37250000, text |-> <<>>] }

\* transcription_result["segments"]
Transcriptions == UNION {[1..n -> RenderSegments] : n \in 0..MaxSegments}

DecimalDigits == <<"0", "1", "2", "3", "4", "5", "6", "7", "8", "9">>

\* str(n) of a natural number
RECURSIVE Decimal(_)
Decimal(n) ==
    IF n < 10 THEN <<DecimalDigits[n + 1]>>
    ELSE Decimal(n \div 10) \o <<DecimalDigits[(n % 10) + 1]>>

\* f"{n:02d}" and f"{n:03d}"
RECURSIVE ZeroPad(_, _)
ZeroPad(digits, width) ==
    IF Len(digits) >= width THEN digits ELSE ZeroPad(<<"0">> \o digits, width)

\* a format_timestamp that writes the dot for every format
FormatTimestampDot(time, format_type) ==
    LET td_seconds == (time \div 10000) % 86400
        td_microseconds == (time % 10000) * 100
        hours == td_seconds \div 3600
        remainder == td_seconds % 3600
        minutes == remainder \div 60
        seconds == remainder % 60
        milliseconds == td_microseconds \div 1000
    IN ZeroPad(Decimal(hours), 2) \o <<":">> \o ZeroPad(Decimal(minutes), 2) \o <<":">> \o
       ZeroPad(Decimal(seconds), 2) \o <<".">> \o ZeroPad(Decimal(milliseconds), 3)

\* format_timestamp: td.seconds leaves out the days of the timedelta; the
\* microseconds are cut to milliseconds; a format that is neither srt nor
\* vtt raises ValueError
FormatTimestamp(time, format_type) ==
    LET td_seconds == (time \div 10000) % 86400
        td_microseconds == (time % 10000) * 100
        hours == td_seconds \div 3600
        remainder == td_seconds % 3600
        minutes == remainder \div 60
        seconds == remainder % 60
        milliseconds == td_microseconds \div 1000
        separator == CASE format_type = "srt" -> <<",">>
                       [] format_type = "vtt" -> <<".">>
                       [] OTHER -> <<"ValueError">>
    IN ZeroPad(Decimal(hours), 2) \o <<":">> \o ZeroPad(Decimal(minutes), 2) \o <<":">> \o
       ZeroPad(Decimal(seconds), 2) \o separator \o ZeroPad(Decimal(milliseconds), 3)

\* what the loop writes for segment number i
SubtitleEntry(i, segment, format_type, max_line_length) ==
    LET text == WrapText(segment.text, max_line_length)
        start_formatted == FormatTimestamp(segment.start, format_type)
        end_formatted == FormatTimestamp(segment.end, format_type)
        timing == start_formatted \o <<" ", "-", "-", ">", " ">> \o end_formatted \o <<"\n">>
    IN CASE format_type = "srt" ->
              Decimal(i) \o <<"\n">> \o timing \o text \o <<"\n", "\n">>
         [] format_type = "vtt" -> timing \o text \o <<"\n", "\n">>
         [] OTHER -> <<>>

\* the entries of the segments from number i on
RECURSIVE SubtitleEntries(_, _, _, _)
SubtitleEntries(segments, i, format_type, max_line_length) ==
    IF i > Len(segments) THEN <<>>
    ELSE SubtitleEntry(i, segments[i], format_type, max_line_length) \o
         SubtitleEntries(segments, i + 1, format_type, max_line_length)

\* the content of the subtitle file
SubtitleContent(segments, format_type, max_line_length) ==
    (IF format_type = "vtt" THEN <<"W", "E", "B", "V", "T", "T", "\n", "\n">> ELSE <<>>) \o
    SubtitleEntries(segments, 1, format_type, max_line_length)

\* the file a transcription is written to
RenderedFile(format_type) == Path(RESULT_FOLDER, "out", format_type)

\* a transcription and a max_line_length (0: none) are given
RenderInit ==
    /\ ServiceIdle
    /\ resp \in {[op |-> "transcription", segments |-> segments,
                  max_line_length |-> max_line_length] :
                    segments \in Transcriptions, max_line_length \in {0, 2}}

\* lines 151-194: the transcription is written as srt or as vtt
WriteSubtitles ==
    \E format_type \in {"srt", "vtt"} :
        /\ files' = WriteFile(files, RenderedFile(format_type),
                        [kind |-> "subtitle", by |-> 0,
                         content |-> SubtitleContent(resp.segments, format_type,
                                                     resp.max_line_length)])
        /\ UNCHANGED <<nextId, args, pc, celery, local, calls, resp, faults>>

RenderNext == WriteSubtitles

RenderSpec == RenderInit /\ [][RenderNext]_vars

\* segments whose times are whole milliseconds, the last two of them beyond
\* 24 hours (25:02:03.004 and 25:02:04.000)
DayLongSegments ==
    { [start |-> 0, end |-> 15010, text |-> <<"a">>],
      [start |-> 15010, end |-> 37230040, text |-> <<" ", "a", " ", "b">>],
      [start |-> 37230040, end |-> 901230040, text |-> <<"b">>],
      [start |-> 901230040, end |-> 901240000, text |-> <<"a", " ", "b">>] }

DayLongTranscriptions == UNION {[1..n -> DayLongSegments] : n \in 0..MaxSegments}

\* a transcription that may run beyond 24 hours is given
DayLongInit ==
    /\ ServiceIdle
    /\ resp \in {[op |-> "transcription", segments |-> segments,
                  max_line_length |-> max_line_length] :
                    segments \in DayLongTranscriptions, max_line_length \in {0, 2}}

DayLongSpec == DayLongInit /\ [][RenderNext]_vars


(***************************************************************************)
(* What a caller observes of a task.                                       *)
(***************************************************************************)
\* the answer of a status query for task t in the current state
Observed(t) == StatusResponse(IdStr(t), celery[t])

\* the task states in the order of the lifecycle
LifecycleOrder ==
    <<"PENDING", "STARTED", "DOWNLOADING", "EXTRACTING", "TRANSCRIBING", "SUCCESS", "FAILURE">>

LifecycleLabels == {TASK_STATUS[LifecycleOrder[i]] : i \in DOMAIN LifecycleOrder}

\* the place of a display label in the lifecycle (0: no lifecycle state)
LabelRank(label) ==
    IF label \in LifecycleLabels
    THEN CHOOSE i \in DOMAIN LifecycleOrder : TASK_STATUS[LifecycleOrder[i]] = label
    ELSE 0

TerminalLabels == {TASK_STATUS["SUCCESS"], TASK_STATUS["FAILURE"]}

\* the exception that ended the execution of task t, or "none"
RaisedCause(t) ==
    IF "exc" \in DOMAIN celery[t].info THEN celery[t].info.exc
    ELSE Get(celery[t].info, "error", "none")

\* the indices of the calls of one kind in the log of task t
CallsOf(t, op) == {i \in DOMAIN calls[t] : calls[t][i].op = op}

(***************************************************************************)
(* C1: the states a caller observes of a task, query after query, follow   *)
(* the order PENDING, STARTED, DOWNLOADING, EXTRACTING, TRANSCRIBING,      *)
(* SUCCESS (or FAILURE); none is observed after an earlier one, every      *)
(* observed status is the label of one of these states, and once SUCCESS   *)
(* or FAILURE is observed the answer never changes again.                  *)
(***************************************************************************)
C1_StateSequence ==
    [][\A t \in TaskIds :
         LET a == Observed(t)
             b == Observed(t)'
         IN /\ b.code = 200 => b.body.status \in LifecycleLabels
            /\ (a.code = 200 /\ b.code = 200) =>
                   LabelRank(b.body.status) >= LabelRank(a.body.status)
            /\ (a.code = 200 /\ a.body.status \in TerminalLabels) => b = a]_vars

\* a task observed as completed after a download and an extraction
C1_Witness ==
    \E t \in TaskIds :
        /\ Observed(t).code = 200
        /\ Observed(t).body.status = TASK_STATUS["SUCCESS"]
        /\ CallsOf(t, "download") # {}
        /\ CallsOf(t, "extract_audio") # {}
        /\ RaisedCause(t) = "none"

(***************************************************************************)
(* C2: when a stage of the execution raised, the task ends in FAILURE and  *)
(* the status query answers with the FAILURE label, the cause in the error *)
(* field and no result.                                                    *)
(***************************************************************************)
C2_FailureReported ==
    \A t \in TaskIds :
        (pc[t] = "done" /\ RaisedCause(t) # "none") =>
            /\ celery[t].state = "FAILURE"
            /\ Observed(t).code = 200
            /\ Observed(t).body.status = TASK_STATUS["FAILURE"]
            /\ "error" \in DOMAIN Observed(t).body
            /\ Observed(t).body.error = RaisedCause(t)
            /\ "result" \notin DOMAIN Observed(t).body

(***************************************************************************)
(* C3: no exception leaves generate_subtitle_task: whatever raised, the    *)
(* first update_state included, the function returns the failure           *)
(* dictionary.                                                             *)
(***************************************************************************)
C3_NoExceptionEscapes ==
    \A t \in TaskIds :
        pc[t] = "done" =>
            /\ IsDict(celery[t].info)
            /\ RaisedCause(t) # "none" =>
                   celery[t].info = FailureResult(RaisedCause(t))

(***************************************************************************)
(* C4: a submission is accepted only with exactly one of media_url and     *)
(* media_key present and not empty.                                        *)
(***************************************************************************)
C4_ExactlyOneReference ==
    (resp.op = "submit" /\ resp.code = 200) =>
        (Truthy(resp.request.media_url) # Truthy(resp.request.media_key))

(***************************************************************************)
(* C5: every accepted submission reaches a terminal state, when the worker *)
(* keeps taking jobs and every call of the execution returns or raises.    *)
(***************************************************************************)
C5_EventuallyTerminal ==
    \A t \in TaskIds :
        (pc[t] = "queued") ~> (celery[t].state \in {"SUCCESS", "FAILURE"})

\* every submitted task is terminal, one of them after a failed stage
C5_Witness ==
    /\ nextId > MaxTasks
    /\ \A t \in TaskIds : pc[t] = "done" /\ celery[t].state \in {"SUCCESS", "FAILURE"}
    /\ \E t \in TaskIds : RaisedCause(t) # "none"

(***************************************************************************)
(* C6: the progress a caller reads for a task, query after query, never    *)
(* decreases, the answers for terminal states included.                    *)
(***************************************************************************)
C6_ProgressMonotone ==
    [][\A t \in TaskIds :
         (Observed(t).code = 200 /\ Observed(t)'.code = 200) =>
             Observed(t)'.body.progress >= Observed(t).body.progress]_vars

\* a task that failed in the transcription, after progress 50 was announced
C6_Witness ==
    \E t \in TaskIds :
        /\ pc[t] = "done"
        /\ RaisedCause(t) = "transcribe"
        /\ Observed(t).code = 200
        /\ Observed(t).body.progress = 100

(***************************************************************************)
(* C7: a transcription that raises on a device other than the CPU is       *)
(* retried exactly once on the CPU; when the retry succeeds the task       *)
(* completes without error, when it raises too the task fails, and there   *)
(* is no third attempt.                                                    *)
(***************************************************************************)
C7_RetryOnCpu ==
    \A t \in TaskIds :
        LET attempts == CallsOf(t, "transcribe") IN
        /\ Cardinality(attempts) <= 2
        /\ \A i \in attempts :
             (~calls[t][i].ok /\ calls[t][i].device # "cpu") =>
                 /\ i + 1 \in attempts
                 /\ calls[t][i + 1].device = "cpu"
                 /\ (calls[t][i + 1].ok /\ pc[t] = "done") =>
                        RaisedCause(t) \in {"none", "read_subtitle", "write_record"}
                 /\ (~calls[t][i + 1].ok) => RaisedCause(t) = "transcribe"

(***************************************************************************)
(* C8: with OBS enabled, a failed upload does not fail the task: it ends   *)
(* in SUCCESS, its result carries the local subtitle URL, and neither the  *)
(* result nor the record carries a remote URL.                             *)
(***************************************************************************)
\* the upload of task t was attempted and did not succeed
UploadFailed(t) ==
    \E i \in CallsOf(t, "upload_file") : ~calls[t][i].ok

C8_UploadFailureTolerated ==
    \A t \in TaskIds :
        (pc[t] = "done" /\ UploadFailed(t)) =>
            /\ celery[t].state = "SUCCESS"
            /\ RaisedCause(t) \in {"none", "read_subtitle", "write_record"}
            /\ RaisedCause(t) = "none" =>
                 /\ Observed(t).body.status = TASK_STATUS["SUCCESS"]
                 /\ Observed(t).body.result.subtitle_url =
                        SubtitleUrl(local[t].subtitle_file)
                 /\ "obs_url" \notin DOMAIN Observed(t).body.result
                 /\ "error" \notin DOMAIN Observed(t).body.result
                 /\ Exists(files, RecordFile(t)) =>
                        "obs_url" \notin DOMAIN files[RecordFile(t)]

\* a completed task whose upload failed
C8_Witness ==
    \E t \in TaskIds :
        /\ pc[t] = "done"
        /\ UploadFailed(t)
        /\ RaisedCause(t) = "none"
        /\ Exists(files, RecordFile(t))

(***************************************************************************)
(* C9: after delete_task answered for an id that had a record, the record  *)
(* and every file <id>.<ext> with a subtitle, audio or media extension is  *)
(* gone from uploads and results, the id is not listed, and a second       *)
(* delete_task answers not-found.                                          *)
(***************************************************************************)
\* the id appears in the answer of list_tasks
Listed(fs, task_id) == \E r \in ListTasks(fs) : r.task_id = task_id

C9_DeleteRemovesAll ==
    (resp.op = "delete") =>
        /\ \A dir \in {UPLOAD_FOLDER, RESULT_FOLDER}, ext \in Range(ALLOWED_EXTENSIONS) \cup {"json", "srt", "vtt"} :
             ~Exists(files, Path(dir, IdStr(resp.id), ext))
        /\ ~Listed(files, IdStr(resp.id))
        /\ ~DeleteFound(files, IdStr(resp.id))

(***************************************************************************)
(* C10: a delete for an id that has no record answers not-found and leaves *)
(* every file of uploads and results as it is: no step of a handler        *)
(* removes a file of such an id.                                           *)
(***************************************************************************)
\* the files whose name is the id
FilesOf(fs, task_id) == {p \in DOMAIN fs : p.name = task_id}

C10_NoRecordUnchanged ==
    [][\A t \in TaskIds :
         (~Exists(files, RecordFile(t))) =>
             FilesOf(files, IdStr(t)) \subseteq FilesOf(files', IdStr(t))]_vars

(***************************************************************************)
(* C11: after delete_task answered for an id, no file that the execution   *)
(* of that task created (downloaded media, extracted audio, subtitle,      *)
(* record) is left on disk.                                                *)
(***************************************************************************)
\* the files the execution of task t wrote
CreatedBy(fs, t) ==
    {p \in DOMAIN fs : "by" \in DOMAIN fs[p] /\ fs[p].by = t} \cup
    {p \in DOMAIN fs : p = RecordFile(t)}

C11_DeleteLeavesNothing ==
    (resp.op = "delete") => CreatedBy(files, resp.id) = {}

(***************************************************************************)
(* C12: a task submitted with a local media key is never in DOWNLOADING    *)
(* and never calls download_media, whether or not the key matches a file.  *)
(***************************************************************************)
\* task t was submitted with a media key
KeyTask(t) ==
    \/ Truthy(Get(args[t].options, "media_key", NoneV))
    \/ /\ resp.op = "submit"
       /\ resp.task_id = t
       /\ Truthy(resp.request.media_key)

C12_LocalKeyNeverDownloads ==
    \A t \in TaskIds :
        KeyTask(t) =>
            /\ celery[t].state # "DOWNLOADING"
            /\ pc[t] # "download"
            /\ CallsOf(t, "download") = {}

\* two finished key tasks: one whose key matched no file, one that completed
C12_Witness ==
    \E t, u \in TaskIds :
        /\ KeyTask(t) /\ pc[t] = "done" /\ RaisedCause(t) = "FileNotFoundError"
        /\ KeyTask(u) /\ pc[u] = "done" /\ RaisedCause(u) = "none"
        /\ celery[u].state = "SUCCESS"

(***************************************************************************)
(* C13: a task is in EXTRACTING and calls extract_audio only when the      *)
(* resolved media path has a video extension, and a task with such a path  *)
(* that reaches the transcription has called it and transcribes its        *)
(* output; with an audio or unknown extension the task skips EXTRACTING    *)
(* and gives the resolved file itself to generate_subtitles, so a          *)
(* local-key audio input has neither a download nor an extraction.         *)
(***************************************************************************)
\* the resolved media path of task t has a video extension
VideoPath(t) ==
    local[t].media_path.ext \in {"mp4", "avi", "mov", "mkv", "webm", "flv", "wmv"}

C13_ExtractIffVideo ==
    \A t \in TaskIds :
        /\ (celery[t].state = "EXTRACTING" \/ pc[t] = "extract"
              \/ CallsOf(t, "extract_audio") # {}) => VideoPath(t)
        /\ \A i \in CallsOf(t, "generate_subtitles") :
             IF VideoPath(t)
             THEN /\ \E j \in CallsOf(t, "extract_audio") :
                        j < i /\ calls[t][j].ok
                               /\ calls[t][j].path = calls[t][i].audio_file
                  /\ calls[t][i].audio_file # local[t].media_path
             ELSE /\ CallsOf(t, "extract_audio") = {}
                  /\ calls[t][i].audio_file = local[t].media_path
                  /\ KeyTask(t) => CallsOf(t, "download") = {}

\* finished tasks of both kinds: a local audio key that went straight to the
\* transcription, and a file without extension treated the same way
C13_Witness ==
    \E t, u \in TaskIds :
        /\ pc[t] = "done" /\ local[t].media_path = Path(UPLOAD_FOLDER, "k", "wav")
        /\ CallsOf(t, "generate_subtitles") # {}
        /\ pc[u] = "done" /\ local[u].media_path = Path(UPLOAD_FOLDER, "n", "")
        /\ CallsOf(u, "generate_subtitles") # {}

(***************************************************************************)
(* C14: each blocking stage is announced before it starts: while the       *)
(* download is about to run or running the state is DOWNLOADING, while the *)
(* extraction is, EXTRACTING, and while generate_subtitles is,             *)
(* TRANSCRIBING; a status query then answers with the matching label.      *)
(***************************************************************************)
\* the state announced before the call that the task is at
StageState(stage) ==
    IF stage = "download" THEN "DOWNLOADING"
    ELSE IF stage = "extract" THEN "EXTRACTING"
    ELSE "TRANSCRIBING"

C14_AnnouncedBeforeCall ==
    \A t \in TaskIds :
        pc[t] \in {"download", "extract", "generate"} =>
            /\ celery[t].state = StageState(pc[t])
            /\ Observed(t).code = 200
            /\ Observed(t).body.status = TASK_STATUS[StageState(pc[t])]

\* a task about to transcribe, after a download and an extraction
C14_Witness ==
    \E t \in TaskIds :
        /\ pc[t] = "generate"
        /\ \E i \in CallsOf(t, "download") : calls[t][i].ok
        /\ \E i \in CallsOf(t, "extract_audio") : calls[t][i].ok

(***************************************************************************)
(* C15: when extract_audio raises, the task ends in FAILURE, it is never   *)
(* in TRANSCRIBING, generate_subtitles is not called, and neither a        *)
(* subtitle file nor a record is written.                                  *)
(***************************************************************************)
\* the extraction of task t raised
ExtractFailed(t) ==
    \E i \in CallsOf(t, "extract_audio") : ~calls[t][i].ok

C15_ExtractionFailureFatal ==
    \A t \in TaskIds :
        ExtractFailed(t) =>
            /\ pc[t] = "done"
            /\ celery[t].state = "FAILURE"
            /\ CallsOf(t, "generate_subtitles") = {}
            /\ \A p \in CreatedBy(files, t) : files[p].kind = "media"

(***************************************************************************)
(* C16: when loading the model on the preferred accelerator (a device      *)
(* other than the CPU) raises, the model is loaded on the CPU and the      *)
(* audio is transcribed there; the accelerator failure alone does not fail *)
(* the task.                                                               *)
(***************************************************************************)
C16_AcceleratorFallback ==
    \A t \in TaskIds :
        \A i \in CallsOf(t, "load_model") :
            (~calls[t][i].ok /\ calls[t][i].device # "cpu") =>
                /\ i + 1 \in CallsOf(t, "load_model")
                /\ calls[t][i + 1].device = "cpu"
                /\ calls[t][i + 1].ok =>
                     /\ i + 2 \in CallsOf(t, "transcribe")
                     /\ calls[t][i + 2].device = "cpu"
                     /\ calls[t][i + 2].ok =>
                          /\ RaisedCause(t) \notin {"load_model", "transcribe"}
                          /\ SupportedFormat(local[t].options.format) =>
                                 local[t].subtitle_file = OutputFile(t, local[t].options)

\* a task that completed on the CPU after the accelerator failed
C16_Witness ==
    \E t \in TaskIds :
        /\ pc[t] = "done"
        /\ celery[t].state = "SUCCESS"
        /\ RaisedCause(t) = "none"
        /\ \E i \in CallsOf(t, "load_model") :
              ~calls[t][i].ok /\ calls[t][i].device \in {"cuda", "mps"}

(***************************************************************************)
(* C17: in every status answer a result is present only with the SUCCESS   *)
(* label and then holds the subtitle file name and its local URL; an error *)
(* is present only with the FAILURE label; no answer carries both, and no  *)
(* result carries an error.                                                *)
(***************************************************************************)
C17_ResultXorError ==
    \A t \in TaskIds :
        LET a == Observed(t) IN
        a.code = 200 =>
            /\ "result" \in DOMAIN a.body =>
                 /\ a.body.status = TASK_STATUS["SUCCESS"]
                 /\ {"subtitle_file", "subtitle_url"} \subseteq DOMAIN a.body.result
                 /\ "error" \notin DOMAIN a.body.result
            /\ "error" \in DOMAIN a.body => a.body.status = TASK_STATUS["FAILURE"]
            /\ ~("result" \in DOMAIN a.body /\ "error" \in DOMAIN a.body)

(***************************************************************************)
(* C18: when a status query starts to report SUCCESS for a task, the task  *)
(* was in TRANSCRIBING and has called generate_subtitles, and its subtitle *)
(* file and its record are on disk.                                        *)
(***************************************************************************)
\* the status query for task t answers with the SUCCESS label
ReportsSuccess(answer) ==
    answer.code = 200 /\ answer.body.status = TASK_STATUS["SUCCESS"]

C18_SuccessAfterArtifacts ==
    [][\A t \in TaskIds :
         (~ReportsSuccess(Observed(t)) /\ ReportsSuccess(Observed(t)')) =>
             /\ celery[t].state = "TRANSCRIBING"
             /\ CallsOf(t, "generate_subtitles")' # {}
             /\ Exists(files', OutputFile(t, local[t].options))
             /\ Exists(files', RecordFile(t))]_vars

(***************************************************************************)
(* C19: when a task completes, its record is written in that step, at      *)
(* results/<id>.json and nowhere else, and agrees with the status result:  *)
(* the task id, status SUCCESS, the subtitle file name <id>.<format>, the  *)
(* media reference and the options the job was submitted with, and an      *)
(* object URL exactly when the result has one, the same.                   *)
(***************************************************************************)
\* the execution of task t returned response_data
Completed(t) == pc[t] = "done" /\ celery[t].state = "SUCCESS" /\ RaisedCause(t) = "none"

\* the record files whose content names the task
RecordsOf(fs, t) ==
    {p \in DOMAIN fs : "task_id" \in DOMAIN fs[p] /\ fs[p].task_id = IdStr(t)}

C19_RecordAgreesWithResult ==
    [][\A t \in TaskIds :
         (~Completed(t) /\ Completed(t)') =>
             LET record == files'[RecordFile(t)]
                 result == Observed(t)'.body.result
                 submitted == args[t].options
             IN /\ RecordsOf(files, t) = {}
                /\ RecordsOf(files', t) = {RecordFile(t)}
                /\ record.task_id = result.task_id
                /\ record.task_id = IdStr(t)
                /\ record.status = "SUCCESS"
                /\ record.subtitle_file = result.subtitle_file
                /\ record.subtitle_file = [name |-> IdStr(t), ext |-> submitted.format]
                /\ record.media_url = args[t].media_url
                /\ \A k \in DOMAIN submitted : record.options[k] = submitted[k]
                /\ (resp.op = "submit" /\ resp.task_id = t) =>
                       /\ record.options.format = resp.request.format
                       /\ IF Truthy(resp.request.media_key)
                          THEN record.options.media_key = resp.request.media_key
                          ELSE record.media_url = resp.request.media_url
                /\ ("obs_url" \in DOMAIN record) <=> ("obs_url" \in DOMAIN result)
                /\ ("obs_url" \in DOMAIN record) => record.obs_url = result.obs_url]_vars

\* a completed task whose record and result both carry the object URL
C19_Witness ==
    \E t \in TaskIds :
        /\ Completed(t)
        /\ Exists(files, RecordFile(t))
        /\ "obs_url" \in DOMAIN files[RecordFile(t)]
        /\ "obs_url" \in DOMAIN Observed(t).body.result

(***************************************************************************)
(* C20: list_tasks returns every record file of the results directory that *)
(* parses, exactly once, with its content and with task_id set to its file *)
(* name; a record file that does not parse is skipped and the others are   *)
(* still returned.                                                         *)
(***************************************************************************)
\* the json files of the results directory
RecordFiles(fs) == {p \in DOMAIN fs : p.dir = RESULT_FOLDER /\ p.ext = "json"}

C20_ListComplete ==
    LET good == {p \in RecordFiles(files) : "corrupt" \notin DOMAIN files[p]}
        listed == ListTasks(files)
    IN /\ Cardinality(listed) = Cardinality(good)
       /\ \A p \in good :
            /\ Cardinality({r \in listed : r.task_id = p.name}) = 1
            /\ \E r \in listed :
                 /\ r.task_id = p.name
                 /\ \A k \in DOMAIN files[p] : r[k] = files[p][k]
       /\ \A p \in RecordFiles(files) \ good : \A r \in listed : r.task_id # p.name

\* a record that does not parse beside one that is listed
C20_Witness ==
    /\ \E p \in RecordFiles(files) : "corrupt" \in DOMAIN files[p]
    /\ \E p \in RecordFiles(files) : "corrupt" \notin DOMAIN files[p]
    /\ Cardinality(ListTasks(files)) = 1

(***************************************************************************)
(* C21: the download of a task answers not-found whenever the task is not  *)
(* in SUCCESS; in SUCCESS it redirects to the object URL if the result has *)
(* one, otherwise it serves the subtitle file the result names if that     *)
(* file exists, and answers not-found if neither is available.             *)
(***************************************************************************)
\* the answer of a download of task t in the current state
Downloaded(t) == DownloadResponse(celery[t], files)

C21_Download ==
    \A t \in TaskIds :
        LET a == Downloaded(t)
            result == celery[t].info
            stored == Path(RESULT_FOLDER, IdStr(t), local[t].options.format)
        IN /\ celery[t].state # "SUCCESS" => a.code = 404
           /\ (celery[t].state = "SUCCESS" /\ "obs_url" \in DOMAIN result) =>
                 /\ a.code = 307
                 /\ a.url = result.obs_url
                 /\ a.url = local[t].obs_url
           /\ (Completed(t) /\ "obs_url" \notin DOMAIN result /\ Exists(files, stored)) =>
                 /\ a.code = 200
                 /\ a.path = stored
           /\ (celery[t].state = "SUCCESS" /\ "obs_url" \notin DOMAIN result
                 /\ ~(Completed(t) /\ Exists(files, stored))) => a.code = 404

\* one task whose download redirects, with its local file present too, and
\* another whose download serves the local file
C21_Witness ==
    \E t \in TaskIds, u \in TaskIds :
        /\ Downloaded(t).code = 307
        /\ Exists(files, OutputFile(t, local[t].options))
        /\ Downloaded(u).code = 200

(***************************************************************************)
(* C22: a status query for a task id that was never submitted fails with   *)
(* not-found and returns no state for it.                                  *)
(***************************************************************************)
\* the ids no submission has been given
NeverSubmitted == {t \in TaskIds : pc[t] = "none"}

C22_UnknownIdNotFound ==
    \A t \in NeverSubmitted :
        /\ Observed(t).code = 404
        /\ "body" \notin DOMAIN Observed(t)

(***************************************************************************)
(* C23: if the media resolution of a task fails (the remote fetch fails or *)
(* no local file matches the key), the task ends in FAILURE with a message *)
(* that names the cause, and neither a subtitle file nor a record exists   *)
(* for its id from then on.                                                *)
(***************************************************************************)
\* the execution of task t ended because its media could not be resolved
ResolutionFailed(t) ==
    pc[t] = "done" /\ RaisedCause(t) \in {"download", "FileNotFoundError"}

\* the subtitle files and the record of a task id in the results directory
ArtifactsOf(fs, t) ==
    {p \in DOMAIN fs : p.dir = RESULT_FOLDER /\ p.name = IdStr(t)}

C23_ResolutionFailure ==
    \A t \in TaskIds :
        ResolutionFailed(t) =>
            /\ celery[t].state = "FAILURE"
            /\ Observed(t).code = 200
            /\ Observed(t).body.status = TASK_STATUS["FAILURE"]
            /\ Observed(t).body.error = RaisedCause(t)
            /\ ArtifactsOf(files, t) = {}

(***************************************************************************)
(* C24: for a local media key the lookup returns the first existing file   *)
(* in a fixed order: the candidates in the uploads directory before those  *)
(* in the videos directory, and within a directory the exact key before    *)
(* the key with an extension added; it raises not-found exactly when none  *)
(* of these candidates exists.                                             *)
(***************************************************************************)
\* the candidates of a key in one directory: the key itself, then the key
\* with each extension added, in the order the lookup tries the extensions
KeyThenExtensions(dir, key) ==
    <<JoinKey(dir, key)>> \o
    [i \in DOMAIN KEY_SEARCH_EXTENSIONS |-> Path(dir, key, KEY_SEARCH_EXTENSIONS[i])]

\* the candidates of a key, the uploads directory first
StagingThenVideos(key) ==
    KeyThenExtensions(UPLOAD_FOLDER, key) \o KeyThenExtensions(VIDEOS_FOLDER, key)

C24_ResolverOrder ==
    resp.op = "lookup" =>
        LET candidates == StagingThenVideos(resp.media_key) IN
        /\ resp.media_path = FirstExisting(files, candidates)
        /\ resp.raised = "FileNotFoundError" <=>
               \A i \in DOMAIN candidates : ~Exists(files, candidates[i])

(***************************************************************************)
(* C25: download_media(url, id) writes only to uploads/<id>.<ext>, where   *)
(* ext is what follows the last dot of the URL, in lower case, when that   *)
(* is an allowed media extension, and mp4 otherwise; a second call with    *)
(* the same URL and id writes the same path again and creates no second    *)
(* file.                                                                   *)
(***************************************************************************)
\* the extension the file of a URL is stored with
StoredExtension(url) ==
    CASE url \in {"http://h/a.wav", "http://h/A.WAV"} -> "wav"
      [] OTHER -> "mp4"

Moved(before, after) == {t \in TaskIds : before[t] # after[t]}

DeleteNow(fs, task_id) ==
    IF DeleteFound(fs, task_id) THEN AfterDelete(fs, task_id, {}) ELSE fs

C27_DeleteWhileRunning ==
    \A t \in Running :
        FilesOf(files, IdStr(t)) # {} =>
            /\ DeleteFound(files, IdStr(t))
            /\ FilesOf(DeleteNow(files, IdStr(t)), IdStr(t)) = {}

(***************************************************************************)
(* C28: the progress a status query reports is a fixed function of the     *)
(* state of the task: 0 in PENDING and STARTED, 10 in DOWNLOADING, 30 in   *)
(* EXTRACTING, 50 in TRANSCRIBING, 100 in SUCCESS (and 0 in FAILURE); no   *)
(* other value is ever reported, and the reported status is the label of   *)
(* that state.                                                             *)
(***************************************************************************)
C28_ProgressByState ==
    \A t \in TaskIds :
        LET a == Observed(t)
            state == celery[t].state
        IN a.code = 200 =>
            /\ a.body.progress \in {0, 10, 30, 50, 100}
            /\ a.body.progress =
                 CASE state \in {"PENDING", "STARTED", "FAILURE"} -> 0
                   [] state = "DOWNLOADING" -> 10
                   [] state = "EXTRACTING" -> 30
                   [] state = "TRANSCRIBING" -> 50
                   [] state = "SUCCESS" -> 100
            /\ a.body.status = TASK_STATUS[state]
            /\ state \in {"STARTED", "DOWNLOADING", "EXTRACTING", "TRANSCRIBING"} =>
                   celery[t].info.progress = a.body.progress

\* one task reported at 100 while another is reported at 30 in EXTRACTING
C28_Witness ==
    \E t \in TaskIds, u \in TaskIds :
        /\ Observed(t).code = 200 /\ Observed(t).body.progress = 100
        /\ celery[u].state = "EXTRACTING"
        /\ Observed(u).code = 200 /\ Observed(u).body.progress = 30

(***************************************************************************)
(* C29: for every segment text and every positive max line length, the     *)
(* wrapped text has the words of the text, whole and in order, and every   *)
(* line of it is at most the limit long unless the line is a single word   *)
(* that alone is longer than the limit.                                    *)
(***************************************************************************)
\* the lines of a text: the pieces between line breaks
SplitLines(text) ==
    LET breaks == {i \in DOMAIN text : text[i] = "\n"}
        break(k) == IF k = 0 THEN 0
                    ELSE IF k > Cardinality(breaks) THEN Len(text) + 1
                    ELSE CHOOSE i \in breaks : Cardinality({j \in breaks : j < i}) = k - 1
    IN [k \in 1..(Cardinality(breaks) + 1) |-> SubSeq(text, break(k - 1) + 1, break(k) - 1)]

C29_WrapKeepsWords ==
    resp.op = "wrapped" =>
        LET lines == SplitLines(resp.output) IN
        /\ Split(resp.output) = Split(resp.text)
        /\ \A i \in DOMAIN lines :
             Len(lines[i]) > resp.max_line_length =>
                 /\ Split(lines[i]) = <<lines[i]>>
                 /\ \E j \in DOMAIN Split(resp.text) : Split(resp.text)[j] = lines[i]

\* a text wrapped into several lines, one of them a word longer than the
\* limit and one of them made of two words
C29_Witness ==
    /\ resp.op = "wrapped"
    /\ LET lines == SplitLines(resp.output) IN
       /\ Len(lines) >= 2
       /\ \E i \in DOMAIN lines : Len(lines[i]) > resp.max_line_length
       /\ \E i \in DOMAIN lines : Len(Split(lines[i])) = 2

(***************************************************************************)
(* C30: for a list of n segments the SRT file is exactly n blocks: the     *)
(* index line (1, 2, ..., n in order), the line 'start --> end' with       *)
(* HH:MM:SS,mmm times, the text, an empty line.  The VTT file is the       *)
(* WEBVTT header and an empty line, then exactly n blocks without index    *)
(* line and with HH:MM:SS.mmm times.                                       *)
(***************************************************************************)
\* the value of a decimal digit
DigitValue(c) == CHOOSE d \in 0..9 : DecimalDigits[d + 1] = c

IsDigit(c) == c \in Range(DecimalDigits)

\* a line of the form HH:MM:SS?mmm --> HH:MM:SS?mmm with the given separator
IsTimingLine(line, separator) ==
    /\ Len(line) = 29
    /\ \A i \in {1, 2, 4, 5, 7, 8, 10, 11, 12, 18, 19, 21, 22, 24, 25, 27, 28, 29} :
          IsDigit(line[i])
    /\ \A i \in {3, 6, 20, 23} : line[i] = ":"
    /\ \A i \in {9, 26} : line[i] = separator
    /\ SubSeq(line, 13, 17) = <<" ", "-", "-", ">", " ">>

\* the milliseconds a time HH:MM:SS?mmm stands for
StampMillis(stamp) ==
    LET v(i) == DigitValue(stamp[i]) IN
    (v(1) * 10 + v(2)) * 3600000 + (v(4) * 10 + v(5)) * 60000 +
    (v(7) * 10 + v(8)) * 1000 + v(10) * 100 + v(11) * 10 + v(12)

\* the lines of the file from line first on are the n blocks of the segments
\* from number k on, and nothing else but the end of the file
RECURSIVE BlocksFrom(_, _, _, _, _, _)
BlocksFrom(lines, first, segments, k, indexed, max_line_length) ==
    IF k > Len(segments) THEN first = Len(lines) /\ lines[first] = <<>>
    ELSE LET timing == IF indexed THEN first + 1 ELSE first
             text == SplitLines(WrapText(segments[k].text, max_line_length))
             after == timing + Len(text) + 1
         IN /\ after + 1 <= Len(lines)
            /\ indexed => lines[first] = Decimal(k)
            /\ IsTimingLine(lines[timing], IF indexed THEN "," ELSE ".")
            /\ StampMillis(SubSeq(lines[timing], 1, 12)) = segments[k].start \div 10
            /\ StampMillis(SubSeq(lines[timing], 18, 29)) = segments[k].end \div 10
            /\ SubSeq(lines, timing + 1, timing + Len(text)) = text
            /\ lines[after] = <<>>
            /\ BlocksFrom(lines, after + 1, segments, k + 1, indexed, max_line_length)

C30_BlocksInOrder ==
    /\ Exists(files, RenderedFile("srt")) =>
          LET lines == SplitLines(files[RenderedFile("srt")].content) IN
          /\ BlocksFrom(lines, 1, resp.segments, 1, TRUE, resp.max_line_length)
          /\ Cardinality({i \in DOMAIN lines : IsTimingLine(lines[i], ",")}) = Len(resp.segments)
    /\ Exists(files, RenderedFile("vtt")) =>
          LET lines == SplitLines(files[RenderedFile("vtt")].content) IN
          /\ Len(lines) >= 3
          /\ lines[1] = <<"W", "E", "B", "V", "T", "T">>
          /\ lines[2] = <<>>
          /\ BlocksFrom(lines, 3, resp.segments, 1, FALSE, resp.max_line_length)
          /\ Cardinality({i \in DOMAIN lines : IsTimingLine(lines[i], ".")}) = Len(resp.segments)
          /\ \A i \in DOMAIN lines : lines[i] # <<>> => ~(\A j \in DOMAIN lines[i] : IsDigit(lines[i][j]))

\* a transcription of three segments written in both formats, one text in
\* two lines
C30_Witness ==
    /\ resp.op = "transcription"
    /\ Len(resp.segments) = 3
    /\ resp.max_line_length = 2
    /\ \E i \in 1..3 : Len(Split(resp.segments[i].text)) = 2
    /\ Exists(files, RenderedFile("srt"))
    /\ Exists(files, RenderedFile("vtt"))

(***************************************************************************)
(* C31: a segment list written as SRT and as VTT gives the same number of  *)
(* blocks, as many as there are segments, with the same text in each       *)
(* block, and in both files the start and the end time of block k stand    *)
(* for the start and the end of segment k to the millisecond, for times of *)
(* whole milliseconds, those of 24 hours and more included.                *)
(***************************************************************************)
\* the numbers of the timing lines of a file, in order
TimingLines(lines, separator) ==
    LET found == {i \in DOMAIN lines : IsTimingLine(lines[i], separator)} IN
    [k \in 1..Cardinality(found) |->
        CHOOSE i \in found : Cardinality({j \in found : j < i}) = k - 1]

\* the text lines of block k: from the timing line to the empty line that
\* ends the block (before the index line of the next block, if indexed)
BlockText(lines, timing, k, indexed) ==
    LET last == IF k < Len(timing)
                THEN timing[k + 1] - (IF indexed THEN 3 ELSE 2)
                ELSE Len(lines) - 2
    IN SubSeq(lines, timing[k] + 1, last)

C31_FormatsAgree ==
    (Exists(files, RenderedFile("srt")) /\ Exists(files, RenderedFile("vtt"))) =>
        LET srt == SplitLines(files[RenderedFile("srt")].content)
            vtt == SplitLines(files[RenderedFile("vtt")].content)
            srt_timing == TimingLines(srt, ",")
            vtt_timing == TimingLines(vtt, ".")
        IN /\ Len(srt_timing) = Len(resp.segments)
           /\ Len(vtt_timing) = Len(resp.segments)
           /\ \A k \in DOMAIN resp.segments :
                 /\ BlockText(srt, srt_timing, k, TRUE) = BlockText(vtt, vtt_timing, k, FALSE)
                 /\ StampMillis(SubSeq(srt[srt_timing[k]], 1, 12)) = resp.segments[k].start \div 10
                 /\ StampMillis(SubSeq(vtt[vtt_timing[k]], 1, 12)) = resp.segments[k].start \div 10
                 /\ StampMillis(SubSeq(srt[srt_timing[k]], 18, 29)) = resp.segments[k].end \div 10
                 /\ StampMillis(SubSeq(vtt[vtt_timing[k]], 18, 29)) = resp.segments[k].end \div 10

(***************************************************************************)
(* C32: the file names a delete reports are exactly the files that existed *)
(* before the call and do not exist after it, one entry for each: a file   *)
(* whose removal failed is not reported, and no removed file is left out.  *)
(* (A step that changes the state and moves no task is a delete.)          *)
(***************************************************************************)
C32_ReportsWhatWasRemoved ==
    [][pc' = pc =>
         LET gone == (DOMAIN files) \ (DOMAIN files')
             reported == resp'.deleted_files
         IN /\ resp'.op = "delete"
            /\ resp'.code = 200
            /\ DOMAIN files' \subseteq DOMAIN files
            /\ \A p \in DOMAIN files' : files'[p] = files[p]
            /\ Len(reported) = Cardinality(gone)
            /\ Range(reported) = {Basename(p) : p \in gone}
            /\ \A p \in DOMAIN files' :
                  p.name = IdStr(resp'.id) => Basename(p) \notin Range(reported)]_vars

\* a delete has reported two files and left a third, whose removal failed
C32_Witness ==
    /\ resp.op = "delete"
    /\ Len(resp.deleted_files) >= 2
    /\ \E p \in Range(DeleteCandidates(IdStr(resp.id))) : Exists(files, p)

(***************************************************************************)
(* C33: no two tasks with distinct ids ever write to the same file path:   *)
(* a step of a task never creates or rewrites a file that another task     *)
(* has written, whatever media key or URL the two tasks were given.        *)
(***************************************************************************)
\* the paths a step writes: those created and those whose content changes
Written(before, after) ==
    {p \in DOMAIN after : p \notin DOMAIN before \/ after[p] # before[p]}

C33_NoSharedPath ==
    [][\A t \in TaskIds :
         pc'[t] # pc[t] =>
             \A p \in Written(files, files') :
                 (p \in DOMAIN files /\ "by" \in DOMAIN files[p]) =>
                     files[p].by \in {0, t}]_vars

(***************************************************************************)
(* C34: for every format a submission is accepted with, the path of the    *)
(* task's subtitle file differs from the path of its record, <id>.json, so *)
(* the record is never written over the subtitle file; and a task          *)
(* completes only with the format srt or vtt.                              *)
(***************************************************************************)
C34_RecordApartFromSubtitle ==
    \A t \in TaskIds :
        pc[t] # "none" =>
            /\ OutputFile(t, args[t].options) # RecordFile(t)
            /\ Completed(t) => SupportedFormat(args[t].options.format)
            /\ Exists(files, RecordFile(t)) => Get(files[RecordFile(t)], "kind", "record") = "record"

(***************************************************************************)
(* C35: once a task has ended, with either outcome, a file <id>.<ext> in   *)
(* uploads or results exists only if the record of the id exists too, so   *)
(* that delete_task reaches every file the task left.                      *)
(***************************************************************************)
\* the files of a task id in the two directories delete_task looks in
Leftovers(fs, t) ==
    {p \in FilesOf(fs, IdStr(t)) : p.dir \in {UPLOAD_FOLDER, RESULT_FOLDER}}

C35_LeftoversHaveRecord ==
    \A t \in TaskIds :
        (pc[t] = "done" /\ Leftovers(files, t) # {}) =>
            /\ Exists(files, RecordFile(t))
            /\ DeleteFound(files, IdStr(t))

(***************************************************************************)
(* C36: after delete_task has answered for an id, a download of that id    *)
(* answers not-found: it neither serves the subtitle file nor redirects to *)
(* a copy of it, whether or not the file was uploaded to the object store. *)
(***************************************************************************)
C36_NoDownloadAfterDelete ==
    (resp.op = "delete" /\ resp.code = 200) =>
        /\ Downloaded(resp.id).code = 404
        /\ "url" \notin DOMAIN Downloaded(resp.id)
        /\ "path" \notin DOMAIN Downloaded(resp.id)

(***************************************************************************)
(* C37: for every media key a submission is accepted with, the file the    *)
(* lookup returns lies in the uploads directory or in the videos           *)
(* directory.                                                              *)
(***************************************************************************)
C37_LookupStaysInside ==
    (resp.op = "lookup" /\ resp.raised = "none") =>
        /\ Exists(files, resp.media_path)
        /\ resp.media_path.dir \in {UPLOAD_FOLDER, VIDEOS_FOLDER}

(***************************************************************************)
(* C38: for every segment text and max line length, the words of the       *)
(* lines of the wrapped text, read line after line, are the words of the   *)
(* text in their order, none dropped, doubled or moved; and no line of the *)
(* wrapped text is empty (a text without any word gives the empty text).   *)
(***************************************************************************)
\* the words of the lines from line i on, line after line
RECURSIVE WordsOfLines(_, _)
WordsOfLines(lines, i) ==
    IF i > Len(lines) THEN <<>> ELSE Split(lines[i]) \o WordsOfLines(lines, i + 1)

C38_WrapLosesNothing ==
    resp.op = "wrapped" =>
        LET lines == SplitLines(resp.output) IN
        /\ WordsOfLines(lines, 1) = Split(resp.text)
        /\ IF Split(resp.text) = <<>>
           THEN resp.output = <<>>
           ELSE \A i \in DOMAIN lines :
                  /\ lines[i] # <<>>
                  /\ Split(lines[i]) # <<>>

\* a text of three words with a space before them and two spaces between
\* two of them, wrapped into two lines within the limit
C38_Witness ==
    /\ resp.op = "wrapped"
    /\ Len(Split(resp.text)) = 3
    /\ resp.text[1] = " "
    /\ Len(Strip(resp.text)) > Len(Join(Split(resp.text), <<" ">>))
    /\ LET lines == SplitLines(resp.output) IN
       /\ Len(lines) = 2
       /\ \A i \in DOMAIN lines : Len(lines[i]) <= resp.max_line_length

(***************************************************************************)
(* C39: when the file that extract_audio_from_video_url downloaded has no  *)
(* video extension, the request is answered with the 400 error 'not a      *)
(* video file', not with a 500, and extract_audio is not called.           *)
(***************************************************************************)
C39_NotVideoIs400 ==
    (/\ resp.op = "extract_audio_from_video_url"
     /\ resp.outcome = "ok"
     /\ ~IsVideo(resp.video_path)) =>
        /\ resp.answer.code = 400
        /\ CallsOf(resp.id, "extract_audio") = {}
        /\ ~Exists(files, Path(RESULT_FOLDER, IdStr(resp.id), resp.audio_format))

====
